---- MODULE Spec2Model ----
(***************************************************************************)
(* Workout-completion pipeline of hevy-progressive-overloader:             *)
(* webhook intake (api/webhooks.rs), reconciliation (scheduler.rs), the    *)
(* shared processing routine process_single_workout, and the stand-alone   *)
(* handler of main.rs.                                                     *)
(*                                                                         *)
(* Option<T> values are sequences of length 0 (None) or 1 (Some(x)).       *)
(* Text is TLA+ strings; a multi-line note is one string with "\n".        *)
(***************************************************************************)
EXTENDS Integers, Sequences, FiniteSets, TLC

\* ------------------------------------------------------------------ bounds
NumIds == 2
MaxDeliveries == 2
MaxPasses == 2
MaxMainRequests == 2
MaxMinute == 31
MaxTitleNumber == 10

Ids == 1..NumIds
Cron == 0
Tasks == 1..MaxDeliveries
Procs == {Cron} \cup Tasks

None == << >>
Some(x) == << x >>

\* ------------------------------------------------------- program constants
StatusOk == 200
StatusUnauthorized == 401
StatusInternalServerError == 500
RecentHours == 24
CronEveryMinutes == 15
DeloadWeek == 8
DeloadIntensityPercent == 60
MaxPages == 10
PageSize == 10
MaxEffortWeek == 7
SyncPage == 1
SyncPageSize == 10

WebhookToken == "s3cret"

\* --------------------------------------------------------------- text
Digits == << "0", "1", "2", "3", "4", "5", "6", "7", "8", "9" >>

RECURSIVE U32ToString(_)
U32ToString(n) ==
    IF n < 10 THEN Digits[n + 1]
    ELSE U32ToString(n \div 10) \o Digits[(n % 10) + 1]

RECURSIVE Join(_, _)
Join(lines, sep) ==
    IF lines = << >> THEN ""
    ELSE IF Len(lines) = 1 THEN lines[1]
    ELSE lines[1] \o sep \o Join(Tail(lines), sep)

SetMax(S) == CHOOSE x \in S : \A y \in S : y <= x

\* ------------------------------------------------- tracker data (models)
\* ExerciseSet (clients/models/common.rs); weight_kg counts tenths of a kilogram
ExerciseSet(index, set_type, weight_kg, reps, rpe) ==
    [ index |-> index, set_type |-> set_type, weight_kg |-> weight_kg,
      reps |-> reps, distance_meters |-> None, duration_seconds |-> None,
      rpe |-> rpe, custom_metric |-> None ]

\* Exercise (clients/models/common.rs)
Exercise(index, title, notes, tid, sets) ==
    [ index |-> index, title |-> title, notes |-> notes,
      exercise_template_id |-> tid, superset_id |-> None,
      rest_seconds |-> Some(90), sets |-> sets ]

\* A conversion that carries the rpe of the set along
SetToUpdateFormatWithRpe(set) ==
    [ set_type |-> set.set_type, weight_kg |-> set.weight_kg, reps |-> set.reps,
      distance_meters |-> set.distance_meters,
      duration_seconds |-> set.duration_seconds,
      custom_metric |-> set.custom_metric, rep_range |-> None, rpe |-> set.rpe ]

\* ExerciseSet::to_update_format: every field but index and rpe; rep_range None
SetToUpdateFormat(set) ==
    [ set_type |-> set.set_type, weight_kg |-> set.weight_kg, reps |-> set.reps,
      distance_meters |-> set.distance_meters,
      duration_seconds |-> set.duration_seconds,
      custom_metric |-> set.custom_metric, rep_range |-> None ]

\* An update format that sends no rest time
ToUpdateFormatWithoutRest(exercise) ==
    [ exercise_template_id |-> exercise.exercise_template_id,
      superset_id |-> exercise.superset_id,
      rest_seconds |-> None,
      notes |-> exercise.notes,
      sets |-> [ k \in 1..Len(exercise.sets) |->
                   SetToUpdateFormat(exercise.sets[k]) ] ]

\* Exercise::to_update_format
ToUpdateFormat(exercise) ==
    [ exercise_template_id |-> exercise.exercise_template_id,
      superset_id |-> exercise.superset_id,
      rest_seconds |-> exercise.rest_seconds,
      notes |-> exercise.notes,
      sets |-> [ k \in 1..Len(exercise.sets) |->
                   SetToUpdateFormat(exercise.sets[k]) ] ]

\* The routine "R1" as the tracker holds it when the process starts.
InitialRoutine ==
    [ id |-> "R1", title |-> "Day 1 - Week 2",
      exercises |-> <<
        Exercise(0, "Bench Press (Barbell)", None, "T1",
                 << ExerciseSet(0, "warmup", Some(400), Some(5), None),
                    ExerciseSet(1, "normal", Some(800), Some(5), Some(8)) >>),
        Exercise(1, "Pull Up", Some("bodyweight"), "T2",
                 << ExerciseSet(0, "normal", None, Some(10), None) >>) >> ]


\* ------------------------------------------------ services/output_formatter
\* Notes are built from whitespace-separated words; split_whitespace is the
\* inverse of joining with one blank over the notes the model uses.
KnownNoteWords ==
    { << "bodyweight" >>, << "Keep", "RPE", "8" >>, << "rpe", "about", "7-8" >>,
      << "Slow", "tempo" >> }

NoteText(words) == Join(words, " ")

SplitWhitespace(text) ==
    IF \E w \in KnownNoteWords : NoteText(w) = text
    THEN CHOOSE w \in KnownNoteWords : NoteText(w) = text
    ELSE << text >>

ToLowercase(word) ==
    CASE word \in { "RPE", "Rpe", "rpe" } -> "rpe"
      [] word \in { "WARMUP", "Warmup", "warmup" } -> "warmup"
      [] OTHER -> word

\* word.chars().any(digit) && word.chars().all(digit or '-')
IsRpeValue(word) == word \in { "6", "7", "8", "9", "10", "7-8", "6-7" }

\* extract_rpe_from_notes: the first of the two words after "rpe" that is a
\* digit/hyphen token
ExtractRpeFromNotes(notes) ==
    LET words == SplitWhitespace(notes)
        at    == { k \in 1..Len(words) : ToLowercase(words[k]) = "rpe" }
    IN  IF at = { } THEN None
        ELSE LET start == CHOOSE k \in at : \A j \in at : k <= j
                 cand  == { k \in (start + 1)..(start + 2) :
                              k <= Len(words) /\ IsRpeValue(words[k]) }
             IN  IF cand = { } THEN None
                 ELSE Some(words[CHOOSE k \in cand : \A j \in cand : k <= j])

IsWarmup(set) == ToLowercase(set.set_type) = "warmup"

RECURSIVE WorkingSets(_)
WorkingSets(sets) ==
    IF sets = << >> THEN << >>
    ELSE IF IsWarmup(Head(sets)) THEN WorkingSets(Tail(sets))
    ELSE << Head(sets) >> \o WorkingSets(Tail(sets))

\* "{:.0}" for a whole number of kilograms, "{:.1}" otherwise
FormatWeight(tenths) ==
    IF tenths % 10 = 0 THEN U32ToString(tenths \div 10)
    ELSE U32ToString(tenths \div 10) \o "." \o U32ToString(tenths % 10)

\* A line that never shows the weight
SetLineRepsOnly(set) ==
    LET reps == IF set.reps = None THEN "?" ELSE U32ToString(set.reps[1])
    IN  reps \o " reps"

SetLine(set) ==
    LET reps == IF set.reps = None THEN "?" ELSE U32ToString(set.reps[1])
    IN  IF set.weight_kg = None THEN reps \o " reps"
        ELSE FormatWeight(set.weight_kg[1]) \o "x" \o reps

\* The lines pushed for one exercise (empty when it has no working set)
SuggestionLines(exercise) ==
    LET working == WorkingSets(exercise.sets)
        rpe     == IF exercise.notes = None THEN None
                   ELSE ExtractRpeFromNotes(exercise.notes[1])
    IN  IF working = << >> THEN << >>
        ELSE << U32ToString(Len(working)) \o " sets" >>
             \o (IF rpe = None THEN << >> ELSE << "RPE " \o rpe[1] >>)
             \o [ k \in 1..Len(working) |-> SetLine(working[k]) ]

\* build_exercise_suggestions: template id -> note; a later exercise with the
\* same template id overwrites an earlier one (HashMap::insert)
BuildExerciseSuggestions(response) ==
    LET exs  == response.updated_exercises
        with == { k \in 1..Len(exs) : SuggestionLines(exs[k]) # << >> }
    IN  [ t \in { exs[k].exercise_template_id : k \in with } |->
            Join(SuggestionLines(
                   exs[SetMax({ k \in with : exs[k].exercise_template_id = t })]),
                 "\n") ]

\* ------------------------------------------------------ services/ai_parser
\* A raw model reply: JSON text (or something that is not JSON), bare or inside
\* a ```json fence, with or without prose around it.  A JSON object is a
\* function from the keys it has to tagged values.
NotJson == [ t |-> "not_json" ]
JObject(obj) == [ t |-> "object", v |-> obj ]
JExercises(exs) == [ t |-> "exercises", v |-> exs ]
JString(text) == [ t |-> "string", v |-> text ]
JNumber(n) == [ t |-> "number", v |-> n ]

RawReply(fenced, prose, content) ==
    [ fenced |-> fenced, prose |-> prose, content |-> content ]

\* A parser that knows no fence: the whole trimmed response is parsed
ExtractJsonFromResponseNoFence(reply) ==
    IF reply.fenced \/ reply.prose THEN NotJson ELSE reply.content

\* extract_json_from_response + parse_json_string: the fence's interior if there
\* is a fence, else the whole trimmed response, which is JSON only without prose
ExtractJsonFromResponse(reply) ==
    IF reply.fenced THEN reply.content
    ELSE IF reply.prose THEN NotJson
    ELSE reply.content

\* A reading of week_number that falls back to 0
ExtractWeekNumberFromJsonOrZero(obj) ==
    IF "week_number" \in DOMAIN obj /\ obj["week_number"].t = "number"
       /\ obj["week_number"].v >= 0
    THEN obj["week_number"].v ELSE 0

\* extract_week_number_from_json: as_u64, then "as u32" (which leaves the
\* numbers of the model, all below 2^31, as they are), else 1
ExtractWeekNumberFromJson(obj) ==
    IF "week_number" \in DOMAIN obj /\ obj["week_number"].t = "number"
       /\ obj["week_number"].v >= 0
    THEN obj["week_number"].v ELSE 1

\* extract_routine_title_from_json
ExtractRoutineTitleFromJson(obj) ==
    IF "routine_title" \in DOMAIN obj /\ obj["routine_title"].t = "string"
    THEN obj["routine_title"].v ELSE "Updated Routine"

ParseError == [ ok |-> FALSE ]

\* parse_gemini_response
ParseGeminiResponse(reply) ==
    LET json == ExtractJsonFromResponse(reply)
    IN  IF json.t # "object" THEN ParseError
        ELSE IF "updated_exercises" \notin DOMAIN json.v THEN ParseError
        ELSE IF json.v["updated_exercises"].t # "exercises" THEN ParseError
        ELSE [ ok |-> TRUE,
               updated_exercises |-> json.v["updated_exercises"].v,
               week_number |-> ExtractWeekNumberFromJson(json.v),
               routine_title |-> ExtractRoutineTitleFromJson(json.v) ]

\* The replies the model collaborator may give.
ReplyA ==
    RawReply(TRUE, TRUE, JObject(
      [ updated_exercises |-> JExercises(<<
          Exercise(0, "Bench Press (Barbell)", Some("Keep RPE 8"), "T1",
                   << ExerciseSet(0, "warmup", Some(400), Some(5), None),
                      ExerciseSet(1, "normal", Some(825), Some(5), Some(8)),
                      ExerciseSet(2, "normal", Some(800), Some(5), None) >>) >>),
        week_number |-> JNumber(3),
        routine_title |-> JString("Day 1 - Week 3") ]))

ReplyB ==
    RawReply(FALSE, FALSE, JObject(
      [ updated_exercises |-> JExercises(<<
          Exercise(0, "Pull Up", None, "T2",
                   << ExerciseSet(0, "normal", None, Some(10), None) >>),
          Exercise(1, "Face Pull", None, "T9",
                   << ExerciseSet(0, "Warmup", Some(100), Some(12), None) >>) >>),
        week_number |-> JString("three") ]))

ReplyMissing ==
    RawReply(FALSE, FALSE, JObject(
      [ week_number |-> JNumber(3), routine_title |-> JString("Day 1 - Week 3") ]))

ReplyProse == RawReply(FALSE, TRUE, JObject(ReplyA.content.v))

LlmReplies == { ReplyA, ReplyB, ReplyMissing, ReplyProse }

\* --------------------------------------------------- api/webhooks: intake
\* An Authorization header: absent, bytes that are not text, or text given as
\* its chunks, the first of which is the 7 characters a scheme takes.
HeaderAbsent == None
HeaderNotText == Some([ is_text |-> FALSE, chunks |-> << >> ])
HeaderText(chunks) == Some([ is_text |-> TRUE, chunks |-> chunks ])

Headers ==
    { HeaderAbsent, HeaderNotText,
      HeaderText(<< "Bearer ", "s3cret" >>),
      HeaderText(<< "Bearer ", "wrong" >>),
      HeaderText(<< "Bearer " >>),
      HeaderText(<< "bearer ", "s3cret" >>),
      HeaderText(<< "s3cret" >>) }

\* Mutant: any bearer token is accepted
AuthenticateRequestAnyToken(header) ==
    IF header = None THEN FALSE
    ELSE IF ~header[1].is_text THEN FALSE
    ELSE Len(header[1].chunks) >= 1 /\ header[1].chunks[1] = "Bearer "

\* authenticate_request: TRUE for Ok(()), FALSE for Err(UNAUTHORIZED)
AuthenticateRequest(header) ==
    IF header = None THEN FALSE
    ELSE IF ~header[1].is_text THEN FALSE
    ELSE IF ~(Len(header[1].chunks) >= 1 /\ header[1].chunks[1] = "Bearer ")
         THEN FALSE
    ELSE IF Join(Tail(header[1].chunks), "") # WebhookToken THEN FALSE
    ELSE TRUE

\* ------------------------------------------------------------------ state
VARIABLES
    processed,   \* AppState.processed_workout_ids
    proc,        \* per task (and the scheduler's inline call): where its
                 \* process_single_workout stands and what it holds
    cron,        \* run_sync: the window still to walk
    passes,      \* reconciliation passes started
    workouts,    \* tracker: the workouts, by id (immutable)
    routine,     \* tracker: routine "R1"
    deliveries,  \* webhook requests handled by handle_workout_completion
    last,        \* what the last step answered or logged on ending (else "none")
    terminal,    \* history: ids with an attempt that reached a terminal state
    failed,      \* history: ids with an attempt that stopped on a failure
    retries,     \* history: per id, attempts the scheduler started after a failure
    mainReq,     \* main.rs webhook_handler: the request it is serving
    mainLog,     \* main.rs webhook_handler: the requests it has answered
    sched,       \* start_scheduler: the wall clock and the runs of its job
    dl,          \* create_deload_transition_context: one call of it
    call,        \* one call of a synchronous function: its input and result
    mtx          \* the Mutex around processed_workout_ids: who holds its guard

vars ==
    << processed, proc, cron, passes, workouts, routine, deliveries, last,
       terminal, failed, retries, mainReq, mainLog, sched, dl, call, mtx >>

mainVars == << mainReq, mainLog >>

sideVars == << sched, dl, call, mtx >>

\* The variables of the webhook and reconciliation paths
serviceVars ==
    << processed, proc, cron, passes, workouts, routine, deliveries, last,
       terminal, failed, retries >>

\* A workout's routine_id and created_at (unparseable: None; else hours ago)
RecentRoutineWorkout == [ routine_id |-> "R1", created_at |-> Some(1) ]

WorkoutKinds ==
    { RecentRoutineWorkout,
      [ routine_id |-> "", created_at |-> Some(1) ],
      [ routine_id |-> "null", created_at |-> Some(RecentHours) ],
      [ routine_id |-> "R1", created_at |-> None ] }

IdleProc ==
    [ pc |-> "idle", id |-> 0, routine_id |-> "", exercises |-> << >>,
      update |-> None, dup |-> FALSE ]

DoneProc == [ IdleProc EXCEPT !.pc = "done" ]

FailureOutcomes ==
    { "workout_fetch_failed", "routine_fetch_failed", "generation_failed",
      "malformed_response" }

TerminalOutcomes == { "no_routine", "updated", "update_failed" }

MainIdle == [ pc |-> "idle", header |-> None, id |-> 0 ]

\* The scheduler before start_scheduler is called
SchedIdle == [ started |-> FALSE, minute |-> 0, started_at |-> 0, runs |-> 0 ]

\* No call of create_deload_transition_context
DeloadIdle == [ pc |-> "idle" ]

\* No call of a synchronous function under study
CallIdle == [ pc |-> "idle" ]

\* The mutex is not under study
MtxIdle == [ pc |-> "idle" ]

Event(kind, i, status) == [ kind |-> kind, id |-> i, status |-> status ]

Silent == Event("none", 0, 0)

Init ==
    /\ processed = { }
    /\ proc = [ p \in Procs |-> IdleProc ]
    /\ cron = [ pc |-> "idle", window |-> << >> ]
    /\ passes = 0
    /\ workouts \in { w \in [ Ids -> WorkoutKinds ] :
                        /\ w[1] = RecentRoutineWorkout
                        /\ \A i \in Ids \ { 1 } : w[i] # RecentRoutineWorkout }
    /\ routine = InitialRoutine
    /\ deliveries = 0
    /\ last = Silent
    /\ terminal = { }
    /\ failed = { }
    /\ retries = [ i \in Ids |-> 0 ]
    /\ mainReq = MainIdle
    /\ mainLog = << >>
    /\ sched = SchedIdle
    /\ dl = DeloadIdle
    /\ call = CallIdle
    /\ mtx = MtxIdle

\* ------------------------------------------- api/webhooks: one attempt
\* The state a fresh call of process_single_workout(state, workout_id) starts in
StartAttempt(i) ==
    [ IdleProc EXCEPT !.pc = "get_workout", !.id = i, !.dup = (i \in processed) ]

\* The attempt of p returns: it joins the history and p is free (the
\* scheduler's loop goes on; a spawned task is over).
Return(p, outcome) ==
    /\ last' = Event(outcome, proc[p].id, 0)
    /\ terminal' = IF outcome \in TerminalOutcomes
                   THEN terminal \cup { proc[p].id } ELSE terminal
    /\ failed' = IF outcome \in FailureOutcomes
                 THEN failed \cup { proc[p].id } ELSE failed
    /\ proc' = [ proc EXCEPT ![p] = IF p = Cron THEN IdleProc ELSE DoneProc ]

\* Mutant: the insert replaces the set
MarkProcessedReplacing(set, id) == { id }

\* processed_workout_ids.lock().unwrap().insert(workout_id)
MarkProcessed(set, id) == set \cup { id }

\* Mutant: only the empty routine id counts as "no routine"
NoRoutineOnlyEmpty(routine_id) == routine_id = ""

\* workout.routine_id.is_empty() || workout.routine_id == "null"
NoRoutineAssociated(routine_id) == routine_id = "" \/ routine_id = "null"

\* What no step of process_single_workout touches
AttemptFrame ==
    UNCHANGED << cron, passes, workouts, deliveries, retries, mainVars, sideVars >>

\* Mutant: a failed workout fetch takes every other attempt and the
\* scheduler's pass down with it
GetWorkoutErrAborts(p) ==
    /\ proc[p].pc = "get_workout"
    /\ last' = Event("workout_fetch_failed", proc[p].id, 0)
    /\ failed' = failed \cup { proc[p].id }
    /\ proc' = [ q \in Procs |-> IF q = Cron \/ proc[q].pc = "idle"
                                 THEN IdleProc ELSE DoneProc ]
    /\ cron' = [ pc |-> "idle", window |-> << >> ]
    /\ UNCHANGED << processed, routine, terminal, passes, workouts,
                    deliveries, retries, mainVars, sideVars >>

\* get_workout(&workout_id).await fails: log and return
GetWorkoutErr(p) ==
    /\ proc[p].pc = "get_workout"
    /\ Return(p, "workout_fetch_failed")
    /\ UNCHANGED << processed, routine >>
    /\ AttemptFrame

\* get_workout(&workout_id).await succeeds; the routine check that follows it
GetWorkoutOk(p) ==
    /\ proc[p].pc = "get_workout"
    /\ LET w == workouts[proc[p].id]
       IN  IF NoRoutineAssociated(w.routine_id)
           THEN /\ processed' = MarkProcessed(processed, proc[p].id)
                /\ Return(p, "no_routine")
           ELSE /\ proc' = [ proc EXCEPT ![p].pc = "get_routine",
                                         ![p].routine_id = w.routine_id ]
                /\ last' = Silent
                /\ UNCHANGED << processed, terminal, failed >>
    /\ UNCHANGED routine
    /\ AttemptFrame

\* Mutant: a failed routine fetch marks the id processed
GetRoutineErrMarks(p) ==
    /\ proc[p].pc = "get_routine"
    /\ Return(p, "routine_fetch_failed")
    /\ processed' = MarkProcessed(processed, proc[p].id)
    /\ UNCHANGED routine
    /\ AttemptFrame

\* get_routine(&workout.routine_id).await fails: log and return
GetRoutineErr(p) ==
    /\ proc[p].pc = "get_routine"
    /\ Return(p, "routine_fetch_failed")
    /\ UNCHANGED << processed, routine >>
    /\ AttemptFrame

\* The id is marked as soon as the routine is fetched
GetRoutineOkMarksEarly(p) ==
    /\ proc[p].pc = "get_routine"
    /\ proc[p].routine_id = routine.id
    /\ proc' = [ proc EXCEPT
         ![p].pc = "generate",
         ![p].exercises = [ k \in 1..Len(routine.exercises) |->
                              ToUpdateFormat(routine.exercises[k]) ] ]
    /\ last' = Silent
    /\ processed' = MarkProcessed(processed, proc[p].id)
    /\ UNCHANGED << routine, terminal, failed >>
    /\ AttemptFrame

\* get_routine succeeds (the tracker knows the routine): the exercises are
\* put in update format and kept for the write-back
GetRoutineOk(p) ==
    /\ proc[p].pc = "get_routine"
    /\ proc[p].routine_id = routine.id
    /\ proc' = [ proc EXCEPT
         ![p].pc = "generate",
         ![p].exercises = [ k \in 1..Len(routine.exercises) |->
                              ToUpdateFormat(routine.exercises[k]) ] ]
    /\ last' = Silent
    /\ UNCHANGED << processed, routine, terminal, failed >>
    /\ AttemptFrame

\* Mutant: a failed generation marks the id processed
GenerateErrMarks(p) ==
    /\ proc[p].pc = "generate"
    /\ Return(p, "generation_failed")
    /\ processed' = MarkProcessed(processed, proc[p].id)
    /\ UNCHANGED routine
    /\ AttemptFrame

\* Mutant: a failed generation is logged and the call is made again
GenerateErrRetries(p) ==
    /\ proc[p].pc = "generate"
    /\ last' = Event("generation_failed", proc[p].id, 0)
    /\ failed' = failed \cup { proc[p].id }
    /\ UNCHANGED << proc, processed, routine, terminal >>
    /\ AttemptFrame

\* process_workout_completion returns Err because generate_text failed
GenerateErr(p) ==
    /\ proc[p].pc = "generate"
    /\ Return(p, "generation_failed")
    /\ UNCHANGED << processed, routine >>
    /\ AttemptFrame

\* The exercises of the update: the routine's own, with the note of the
\* suggestion for the same template id where there is one
UpdatedExercises(exercises, suggestions) ==
    [ k \in 1..Len(exercises) |->
        IF exercises[k].exercise_template_id \in DOMAIN suggestions
        THEN [ exercises[k] EXCEPT
                 !.notes = Some(suggestions[exercises[k].exercise_template_id]) ]
        ELSE exercises[k] ]

\* An update titled by the week number of the response
RoutineUpdateTitledByWeek(response, exercises) ==
    [ title |-> Some("Week " \o U32ToString(response.week_number)), notes |-> None,
      exercises |-> Some(UpdatedExercises(exercises,
                                          BuildExerciseSuggestions(response))),
      folder_id |-> None ]

\* An update that leaves the title of the routine alone
RoutineUpdateWithoutTitle(response, exercises) ==
    [ title |-> None, notes |-> None,
      exercises |-> Some(UpdatedExercises(exercises,
                                          BuildExerciseSuggestions(response))),
      folder_id |-> None ]

\* RoutineUpdate { title, notes: None, exercises, folder_id: None }
RoutineUpdate(response, exercises) ==
    [ title |-> Some(response.routine_title), notes |-> None,
      exercises |-> Some(UpdatedExercises(exercises,
                                          BuildExerciseSuggestions(response))),
      folder_id |-> None ]

\* generate_text returns a reply; it is parsed, and on success the update is
\* prepared (all of it synchronous, up to the await of update_routine)
GenerateOk(p, reply) ==
    /\ proc[p].pc = "generate"
    /\ LET response == ParseGeminiResponse(reply)
       IN  IF ~response.ok
           THEN /\ Return(p, "malformed_response")
                /\ UNCHANGED processed
           ELSE /\ proc' = [ proc EXCEPT
                      ![p].pc = "update_routine",
                      ![p].update = Some(RoutineUpdate(response, proc[p].exercises)),
                      ![p].exercises = << >> ]
                /\ last' = Silent
                /\ UNCHANGED << processed, terminal, failed >>
    /\ UNCHANGED routine
    /\ AttemptFrame

\* The tracker applies PUT /v1/routines/{id}: the fields the update carries
\* replace the routine's; it stores no rpe, since none is sent
TemplateTitle(tid) ==
    CASE tid = "T1" -> "Bench Press (Barbell)"
      [] tid = "T2" -> "Pull Up"
      [] OTHER -> "Exercise"

ApplyUpdate(r, update) ==
    [ id |-> r.id,
      title |-> IF update.title = None THEN r.title ELSE update.title[1],
      exercises |->
        IF update.exercises = None THEN r.exercises
        ELSE [ k \in 1..Len(update.exercises[1]) |->
                 LET e == update.exercises[1][k]
                 IN  [ index |-> k - 1,
                       title |-> TemplateTitle(e.exercise_template_id),
                       notes |-> e.notes,
                       exercise_template_id |-> e.exercise_template_id,
                       superset_id |-> e.superset_id,
                       rest_seconds |-> e.rest_seconds,
                       sets |-> [ j \in 1..Len(e.sets) |->
                                    [ index |-> j - 1,
                                      set_type |-> e.sets[j].set_type,
                                      weight_kg |-> e.sets[j].weight_kg,
                                      reps |-> e.sets[j].reps,
                                      distance_meters |-> e.sets[j].distance_meters,
                                      duration_seconds |-> e.sets[j].duration_seconds,
                                      rpe |-> None,
                                      custom_metric |-> e.sets[j].custom_metric ] ] ] ] ]

\* Mutant: the id is marked processed only when the update succeeded
UpdateRoutineMarksOnSuccess(p, ok, applied) ==
    /\ proc[p].pc = "update_routine"
    /\ ok => applied
    /\ routine' = IF applied THEN ApplyUpdate(routine, proc[p].update[1])
                  ELSE routine
    /\ processed' = IF ok THEN MarkProcessed(processed, proc[p].id) ELSE processed
    /\ Return(p, IF ok THEN "updated" ELSE "update_failed")
    /\ AttemptFrame

\* update_routine(...).await returns Ok or Err; either is logged, and the id
\* is marked processed.  An Err may come without the tracker having applied
\* the update, or after it did (the echoed routine could not be read).
UpdateRoutine(p, ok, applied) ==
    /\ proc[p].pc = "update_routine"
    /\ ok => applied
    /\ routine' = IF applied THEN ApplyUpdate(routine, proc[p].update[1])
                  ELSE routine
    /\ processed' = MarkProcessed(processed, proc[p].id)
    /\ Return(p, IF ok THEN "updated" ELSE "update_failed")
    /\ AttemptFrame

\* ------------------------------------- api/webhooks: handle_workout_completion
\* The task slot the next tokio::spawn takes
NextTask == deliveries + 1

\* Mutant: the handler consults the processed set before it spawns
HandleWorkoutCompletionDedup(header, i) ==
    /\ deliveries < MaxDeliveries
    /\ deliveries' = deliveries + 1
    /\ IF ~AuthenticateRequest(header)
       THEN /\ last' = Event("response", i, StatusUnauthorized)
            /\ UNCHANGED proc
       ELSE /\ proc' = IF i \in processed THEN proc
                       ELSE [ proc EXCEPT ![NextTask] = StartAttempt(i) ]
            /\ last' = Event("response", i, StatusOk)
    /\ UNCHANGED << processed, cron, passes, workouts, routine, terminal,
                    failed, retries, mainVars, sideVars >>

\* handle_workout_completion for a request with a well-formed body: 401 if
\* authenticate_request fails, else spawn process_single_workout and answer 200
HandleWorkoutCompletion(header, i) ==
    /\ deliveries < MaxDeliveries
    /\ deliveries' = deliveries + 1
    /\ IF ~AuthenticateRequest(header)
       THEN /\ last' = Event("response", i, StatusUnauthorized)
            /\ UNCHANGED proc
       ELSE /\ proc' = [ proc EXCEPT ![NextTask] = StartAttempt(i) ]
            /\ last' = Event("response", i, StatusOk)
    /\ UNCHANGED << processed, cron, passes, workouts, routine, terminal,
                    failed, retries, mainVars, sideVars >>

\* ------------------------------------------------------ scheduler: run_sync
\* GET /v1/workouts?page=&pageSize=: the tracker's workouts, newest first
GetWorkouts(page, page_size) ==
    LET all   == [ k \in 1..NumIds |-> k ]
        first == (page - 1) * page_size + 1
        end   == IF page * page_size < NumIds THEN page * page_size ELSE NumIds
    IN  SubSeq(all, first, end)

\* Mutant: any creation time that parses is taken, whatever its age
CreatedRecentlyAnyAge(w) == w.created_at # None

\* parse_from_rfc3339(&w.created_at) succeeds and created > now - 24 h
CreatedRecently(w) ==
    w.created_at # None /\ w.created_at[1] < RecentHours

RECURSIVE RetainRecent(_)
RetainRecent(ids) ==
    IF ids = << >> THEN << >>
    ELSE IF CreatedRecently(workouts[Head(ids)])
         THEN << Head(ids) >> \o RetainRecent(Tail(ids))
         ELSE RetainRecent(Tail(ids))

\* A failed fetch that ends the job for good, as a panic in it would
RunSyncFetchErrStopsJob ==
    /\ cron.pc = "idle"
    /\ passes < MaxPasses
    /\ passes' = passes + 1
    /\ cron' = [ cron EXCEPT !.pc = "stopped" ]
    /\ last' = Event("sync_failed", 0, 0)
    /\ UNCHANGED << processed, proc, workouts, routine, deliveries,
                    terminal, failed, retries, mainVars, sideVars >>

\* run_sync starts and get_workouts(1, 10) fails: the pass ends with the error
RunSyncFetchErr ==
    /\ cron.pc = "idle"
    /\ passes < MaxPasses
    /\ passes' = passes + 1
    /\ last' = Event("sync_failed", 0, 0)
    /\ UNCHANGED << processed, proc, cron, workouts, routine, deliveries,
                    terminal, failed, retries, mainVars, sideVars >>

\* run_sync starts and fetches the page; the window is what was created in
\* the last 24 hours
RunSyncFetchOk ==
    /\ cron.pc = "idle"
    /\ passes < MaxPasses
    /\ passes' = passes + 1
    /\ cron' = [ pc |-> "loop",
                 window |-> RetainRecent(GetWorkouts(SyncPage, SyncPageSize)) ]
    /\ last' = Silent
    /\ UNCHANGED << processed, proc, workouts, routine, deliveries,
                    terminal, failed, retries, mainVars, sideVars >>

\* Mutant: the check finds every id
AlreadyProcessedAlways(set, id) == TRUE

\* Mutant: the check never finds the id
AlreadyProcessedNever(set, id) == FALSE

\* processed.contains(&workout_id)
AlreadyProcessed(set, id) == id \in set

\* One turn of the for loop: skip the workout if it is marked processed, else
\* call process_single_workout for it (the loop waits for the call to return)
RunSyncNext ==
    /\ cron.pc = "loop"
    /\ proc[Cron].pc = "idle"
    /\ cron.window # << >>
    /\ LET i == Head(cron.window)
       IN  /\ cron' = [ cron EXCEPT !.window = Tail(cron.window) ]
           /\ IF AlreadyProcessed(processed, i)
              THEN /\ last' = Event("already_processed", i, 0)
                   /\ UNCHANGED << proc, retries >>
              ELSE /\ proc' = [ proc EXCEPT ![Cron] = StartAttempt(i) ]
                   /\ retries' = IF i \in failed
                                 THEN [ retries EXCEPT ![i] = @ + 1 ]
                                 ELSE retries
                   /\ last' = Silent
    /\ UNCHANGED << processed, passes, workouts, routine, deliveries, terminal,
                    failed, mainVars, sideVars >>

\* The loop is over: "cron.sync_completed", Ok(())
RunSyncDone ==
    /\ cron.pc = "loop"
    /\ proc[Cron].pc = "idle"
    /\ cron.window = << >>
    /\ cron' = [ cron EXCEPT !.pc = "idle" ]
    /\ last' = Event("sync_completed", 0, 0)
    /\ UNCHANGED << processed, proc, passes, workouts, routine, deliveries,
                    terminal, failed, retries, mainVars, sideVars >>

Next ==
    \/ \E header \in Headers, i \in Ids : HandleWorkoutCompletion(header, i)
    \/ \E p \in Procs : GetWorkoutErr(p)
    \/ \E p \in Procs : GetWorkoutOk(p)
    \/ \E p \in Procs : GetRoutineErr(p)
    \/ \E p \in Procs : GetRoutineOk(p)
    \/ \E p \in Procs : GenerateErr(p)
    \/ \E p \in Procs, reply \in LlmReplies : GenerateOk(p, reply)
    \/ \E p \in Procs, ok \in BOOLEAN, applied \in BOOLEAN :
         UpdateRoutine(p, ok, applied)
    \/ RunSyncFetchErr
    \/ RunSyncFetchOk
    \/ RunSyncNext
    \/ RunSyncDone

Spec == Init /\ [][Next]_vars

\* ------------------------------------------------- main.rs: webhook_handler
\* The checks main.rs makes on the Authorization header (lines 41-63)
MainAuthenticate(header) ==
    IF header = None THEN FALSE
    ELSE IF ~header[1].is_text THEN FALSE
    ELSE IF ~(Len(header[1].chunks) >= 1 /\ header[1].chunks[1] = "Bearer ")
         THEN FALSE
    ELSE IF Join(Tail(header[1].chunks), "") # WebhookToken THEN FALSE
    ELSE TRUE

MainAnswer(header, i, status, awaited) ==
    [ header |-> header, id |-> i, status |-> status, awaited |-> awaited ]

\* webhook_handler up to its first await: 401, or the call of get_workout
WebhookHandler(header, i) ==
    /\ mainReq.pc = "idle"
    /\ Len(mainLog) < MaxMainRequests
    /\ IF ~MainAuthenticate(header)
       THEN /\ mainLog' = Append(mainLog,
                 MainAnswer(header, i, StatusUnauthorized, FALSE))
            /\ UNCHANGED mainReq
       ELSE /\ mainReq' = [ pc |-> "get_workout", header |-> header, id |-> i ]
            /\ UNCHANGED mainLog
    /\ UNCHANGED << processed, proc, cron, passes, workouts, routine,
                    deliveries, last, terminal, failed, retries, sideVars >>

\* get_workout(...).await returns: the workout as JSON (200), or 500
WebhookHandlerAnswer(fetched) ==
    /\ mainReq.pc = "get_workout"
    /\ mainLog' = Append(mainLog,
         MainAnswer(mainReq.header, mainReq.id,
                    IF fetched THEN StatusOk ELSE StatusInternalServerError,
                    TRUE))
    /\ mainReq' = MainIdle
    /\ UNCHANGED << processed, proc, cron, passes, workouts, routine,
                    deliveries, last, terminal, failed, retries, sideVars >>

MainNext ==
    \/ \E header \in Headers, i \in Ids : WebhookHandler(header, i)
    \/ \E fetched \in BOOLEAN : WebhookHandlerAnswer(fetched)

MainSpec == Init /\ [][MainNext]_vars

\* -------------------------------------------- services/ai_parser: titles
\* A title is the sequence of its maximal runs of letters, of digits, of
\* white space and of other characters ("Day4 -week 2" is "Day", "4", " ",
\* "-", "week", " ", "2"); its text is the runs one after the other.
TitleText(title) == Join(title, "")

\* The title of words with one blank between them
RECURSIVE Words(_)
Words(words) ==
    IF Len(words) <= 1 THEN words
    ELSE << Head(words), " " >> \o Words(Tail(words))

\* (?i)<keyword> right before what follows a run of letters: the run ends
\* with the keyword in some letter case (the runs the titles of the model use)
MatchesIgnoreCase(word, keyword) ==
    CASE keyword = "week" -> word \in { "Week", "week", "WEEK", "wEeK", "Midweek" }
      [] keyword = "day" -> word \in { "Day", "day", "DAY", "dAy", "Weekday" }
      [] OTHER -> FALSE

\* \s* : a run of white space
IsWhitespace(run) == run \in { " ", "  ", "\t" }

\* The decimal numerals of the numbers the titles use, with or without a
\* leading zero, and the number each one stands for
NumeralValue ==
    [ word \in { U32ToString(n) : n \in 0..MaxTitleNumber }
                 \cup { "0" \o U32ToString(n) : n \in 0..MaxTitleNumber } |->
        CHOOSE n \in 0..MaxTitleNumber :
          word \in { U32ToString(n), "0" \o U32ToString(n) } ]

\* \d+ : the run is a decimal numeral
IsDigits(word) == word \in DOMAIN NumeralValue

\* str::parse::<u32>().ok() on a run
ParseU32(word) == IF IsDigits(word) THEN Some(NumeralValue[word]) ELSE None

\* The digits must be set off from the keyword by white space
DigitsAfterBlank(title, k) ==
    IF k + 2 <= Len(title) /\ IsWhitespace(title[k + 1]) /\ IsDigits(title[k + 2])
    THEN Some(title[k + 2])
    ELSE None

\* The run of digits that follows run k, white space skipped, if there is one
DigitsAfter(title, k) ==
    IF k + 1 <= Len(title) /\ IsDigits(title[k + 1]) THEN Some(title[k + 1])
    ELSE IF k + 2 <= Len(title) /\ IsWhitespace(title[k + 1]) /\ IsDigits(title[k + 2])
    THEN Some(title[k + 2])
    ELSE None

\* captures(title).get(1) for (?i)<keyword>\s*(\d+): the digits after the
\* first occurrence of the keyword that digits follow
CaptureAfter(title, keyword) ==
    LET at == { k \in 1..Len(title) :
                  MatchesIgnoreCase(title[k], keyword) /\ DigitsAfter(title, k) # None }
    IN  IF at = { } THEN None
        ELSE DigitsAfter(title, CHOOSE k \in at : \A j \in at : k <= j)

\* extract_week_from_title
ExtractWeekFromTitle(title) ==
    LET m == CaptureAfter(title, "week")
    IN  IF m = None THEN None ELSE ParseU32(m[1])

\* DeloadCalculator::extract_day_from_title
ExtractDayFromTitle(title) ==
    LET m == CaptureAfter(title, "day")
    IN  IF m = None THEN None ELSE ParseU32(m[1])

UnwrapOr(opt, default) == IF opt = None THEN default ELSE opt[1]

\* extract_week_and_day: (week.unwrap_or(1), day.unwrap_or(1))
ExtractWeekAndDay(title) ==
    [ week |-> UnwrapOr(ExtractWeekFromTitle(title), 1),
      day  |-> UnwrapOr(ExtractDayFromTitle(title), 1) ]

\* A successor without the wrap: week 8 is followed by week 9
NextTitleRunsNoWrap(title) ==
    LET has_week  == CaptureAfter(title, "week") # None
        has_day   == CaptureAfter(title, "day") # None
        current   == ExtractWeekAndDay(title)
        next_week == current.week + 1
    IN  CASE has_day /\ has_week ->
               << "Day", " ", U32ToString(current.day), " ", "-", " ", "Week", " ",
                  U32ToString(next_week) >>
          [] has_day /\ ~has_week -> << "Day", " ", U32ToString(current.day + 1) >>
          [] ~has_day /\ has_week -> << "Week", " ", U32ToString(next_week) >>
          [] OTHER -> << "Week", " ", "2" >>

\* A successor that leaves a title with a day and no week as it is
NextTitleRunsKeepsDay(title) ==
    LET has_week  == CaptureAfter(title, "week") # None
        has_day   == CaptureAfter(title, "day") # None
        current   == ExtractWeekAndDay(title)
        next_week == IF current.week >= DeloadWeek THEN 1 ELSE current.week + 1
    IN  CASE has_day /\ has_week ->
               << "Day", " ", U32ToString(current.day), " ", "-", " ", "Week", " ",
                  U32ToString(next_week) >>
          [] has_day /\ ~has_week -> << "Day", " ", U32ToString(current.day) >>
          [] ~has_day /\ has_week -> << "Week", " ", U32ToString(next_week) >>
          [] OTHER -> << "Week", " ", "2" >>

\* determine_routine_title_format, as the runs of the string it formats
NextTitleRuns(title) ==
    LET has_week  == CaptureAfter(title, "week") # None
        has_day   == CaptureAfter(title, "day") # None
        current   == ExtractWeekAndDay(title)
        next_week == IF current.week >= DeloadWeek THEN 1 ELSE current.week + 1
    IN  CASE has_day /\ has_week ->
               << "Day", " ", U32ToString(current.day), " ", "-", " ", "Week", " ",
                  U32ToString(next_week) >>
          [] has_day /\ ~has_week -> << "Day", " ", U32ToString(current.day + 1) >>
          [] ~has_day /\ has_week -> << "Week", " ", U32ToString(next_week) >>
          [] OTHER -> << "Week", " ", "2" >>

\* determine_routine_title_format: the string of these runs (the runs are
\* bound to a value first, so that they are computed once)
DetermineRoutineTitleFormat(title) ==
    CHOOSE text \in { TitleText(runs) : runs \in { NextTitleRuns(title) } } : TRUE

\* ------------------------------------ services/ai_parser: one title at a time
MaxApplications == 9

WeekSpellings == { "Week", "week", "WEEK", "wEeK" }
DaySpellings == { "Day", "day", "dAy" }
Gaps == { "", " ", "  " }
WeekNumbers == 0..MaxTitleNumber
DayNumbers == 1..4

\* A keyword, a gap (or none) and a number
Token(spelling, gap, n) ==
    << spelling >> \o (IF gap = "" THEN << >> ELSE << gap >>) \o << U32ToString(n) >>

\* What stands between the two tokens of a title
Separators == { << " " >>, << " ", "-", " " >>, << " ", "-" >> }

TitleCase(title, week, day) == [ title |-> title, week |-> week, day |-> day ]

\* Titles with the week and the day (None: no such token) they are made of
WeekOnlyTitles ==
    { TitleCase(Token(w, g, n), Some(n), None) :
        w \in WeekSpellings, g \in Gaps, n \in WeekNumbers }

DayOnlyTitles ==
    { TitleCase(Token(d, g, m), None, Some(m)) :
        d \in DaySpellings, g \in Gaps, m \in DayNumbers }

DayWeekTitles ==
    { TitleCase(Token(d, g, m) \o sep \o Token(w, g, n), Some(n), Some(m)) :
        d \in DaySpellings, w \in { "Week", "week" }, g \in Gaps, sep \in Separators,
        m \in DayNumbers, n \in WeekNumbers }

WeekDayTitles ==
    { TitleCase(Token(w, g, n) \o sep \o Token(d, " ", m), Some(n), Some(m)) :
        d \in { "Day", "DAY" }, w \in WeekSpellings, g \in Gaps,
        sep \in { << " " >>, << " ", "-", " " >> },
        m \in DayNumbers, n \in WeekNumbers }

PlainTitles ==
    { TitleCase(Words(<< "Push", "Day" >>), None, None),
      TitleCase(Words(<< "Chest", "Press" >>), None, None),
      TitleCase(<< "Day", "4", " ", "-", "week", " ", "2" >>, Some(2), Some(4)),
      TitleCase(Words(<< "Leg", "Day", "-", "Week", "5" >>), Some(5), None),
      TitleCase(Words(<< "Deload", "week", "-", "day", "2" >>), None, Some(2)) }

TitleCases ==
    WeekOnlyTitles \cup DayOnlyTitles \cup DayWeekTitles \cup WeekDayTitles
      \cup PlainTitles

TitleStart(c) ==
    [ pc |-> "title", first |-> c, title |-> c.title, applications |-> 0,
      week_and_day |-> None, next |-> None ]

TitleInit ==
    /\ processed = { }
    /\ proc = [ p \in Procs |-> IdleProc ]
    /\ cron = [ pc |-> "idle", window |-> << >> ]
    /\ passes = 0
    /\ workouts = [ i \in Ids |-> RecentRoutineWorkout ]
    /\ routine = InitialRoutine
    /\ deliveries = 0
    /\ last = Silent
    /\ terminal = { }
    /\ failed = { }
    /\ retries = [ i \in Ids |-> 0 ]
    /\ mainReq = MainIdle
    /\ mainLog = << >>
    /\ sched = SchedIdle
    /\ dl = DeloadIdle
    /\ mtx = MtxIdle
    /\ \E c \in TitleCases : call = TitleStart(c)

TitleFrame == UNCHANGED << serviceVars, mainVars, sched, dl, mtx >>

\* extract_week_and_day(title)
ExtractWeekAndDayCall ==
    /\ call.pc = "title"
    /\ call' = [ call EXCEPT !.pc = "extracted",
                             !.week_and_day = Some(ExtractWeekAndDay(call.title)) ]
    /\ TitleFrame

\* determine_routine_title_format(title)
DetermineRoutineTitleFormatCall ==
    /\ call.pc = "extracted"
    /\ call' = [ call EXCEPT !.pc = "next", !.next = Some(NextTitleRuns(call.title)) ]
    /\ TitleFrame

\* The title it gave is the title of the next workout
ApplyAgain ==
    /\ call.pc = "next"
    /\ call.applications < MaxApplications
    /\ call' = [ call EXCEPT !.pc = "title", !.title = call.next[1],
                             !.applications = @ + 1,
                             !.week_and_day = None, !.next = None ]
    /\ TitleFrame

TitleNext ==
    \/ ExtractWeekAndDayCall
    \/ DetermineRoutineTitleFormatCall
    \/ ApplyAgain

TitleSpec == TitleInit /\ [][TitleNext]_vars

\* --------------------------------------------------------- services/deload
\* A workout of the history, with what the search and the prompt read of it
HistoryWorkout(id, title, routine_id) ==
    [ id |-> id, title |-> title, routine_id |-> routine_id,
      start_time |-> "2025-01-06T07:00:00Z", end_time |-> "2025-01-06T08:00:00Z",
      exercises |-> << >> ]

\* ai_prompt::format_workout_for_prompt (of a workout without exercises)
FormatWorkoutForPrompt(w) ==
    "Workout Title: " \o TitleText(w.title) \o "\n"
      \o "Start Time: " \o w.start_time \o "\n"
      \o "End Time: " \o w.end_time \o "\n"
      \o "\nExercises:\n"

\* DeloadCalculator::generate_deload_instruction
GenerateDeloadInstruction(has_reference) ==
    IF has_reference
    THEN " CYCLE TRANSITION: You are transitioning from Week 8 (deload) to Week 1 of a NEW 8-week block. This should be a DELOAD week with "
           \o U32ToString(DeloadIntensityPercent)
           \o "% intensity and reduced volume based on the reference workout provided (either Week 1 from previous cycle or Week 7 max effort as baseline). Apply the deload percentage to the reference weights. Focus on form, recovery, and conservative loading."
    ELSE " CYCLE TRANSITION: You are transitioning from Week 8 (deload) to Week 1 of a NEW 8-week block. This should be a DELOAD week with "
           \o U32ToString(DeloadIntensityPercent)
           \o "% intensity reduction from current weights and reduced volume. Focus on form, recovery, and conservative loading to prepare for the new training cycle."

\* let next_week_index = if current_week_index >= 8 { 1 } else { .. + 1 }
NextWeekIndex(current_week_index) ==
    IF current_week_index >= DeloadWeek THEN 1 ELSE current_week_index + 1

\* A week the search is run for, under a test one week too early
IsDeloadTransitionFromWeek7(current_week_index) == current_week_index >= MaxEffortWeek

\* The negation of "if current_week_index < 8 { return .. }"
IsDeloadTransition(current_week_index) == current_week_index >= DeloadWeek

DeloadContext(next_week_index, cycle_instruction, reference_data) ==
    [ next_week_index |-> next_week_index,
      cycle_instruction |-> cycle_instruction,
      reference_data |-> reference_data ]

\* The context create_deload_transition_context returns for week >= 8, from
\* what find_week1_reference_with_fallback returned (Ok(None) and Err alike)
TransitionContext(next_week_index, reference) ==
    IF reference = None
    THEN DeloadContext(next_week_index, "\n\n" \o GenerateDeloadInstruction(FALSE), "")
    ELSE DeloadContext(next_week_index, "\n\n" \o GenerateDeloadInstruction(TRUE),
           "\n\n"
             \o (IF ExtractWeekFromTitle(reference[1].title) = Some(1)
                 THEN "WEEK 1 REFERENCE WORKOUT"
                 ELSE "WEEK 7 REFERENCE WORKOUT (max effort baseline)")
             \o " (for deload calculation):\n"
             \o FormatWorkoutForPrompt(reference[1]))

\* is_week1_same_day_workout
IsWeek1SameDayWorkout(workout, target_day) ==
    /\ ExtractWeekFromTitle(workout.title) = Some(1)
    /\ ExtractDayFromTitle(workout.title) = Some(target_day)

\* The test of the fallback loop (deload.rs 183-184)
IsMaxEffortSameRoutine(workout, current) ==
    /\ ExtractWeekFromTitle(workout.title) = Some(MaxEffortWeek)
    /\ workout.routine_id = current.routine_id

\* The first workout of a page the week-1 loop returns, if any
RECURSIVE FirstWeek1SameDay(_, _)
FirstWeek1SameDay(page, target_day) ==
    IF page = << >> THEN None
    ELSE IF IsWeek1SameDayWorkout(Head(page), target_day) THEN Some(Head(page))
    ELSE FirstWeek1SameDay(Tail(page), target_day)

\* The first workout of a page the fallback loop returns, if any
RECURSIVE FirstMaxEffortSameRoutine(_, _)
FirstMaxEffortSameRoutine(page, current) ==
    IF page = << >> THEN None
    ELSE IF IsMaxEffortSameRoutine(Head(page), current) THEN Some(Head(page))
    ELSE FirstMaxEffortSameRoutine(Tail(page), current)

\* A loop that never looks at the total count
ReachedTotalCountNever(page, total_count) == FALSE

\* (page + 1) * page_size >= workouts_response.total_count
ReachedTotalCount(page, total_count) == (page + 1) * PageSize >= total_count

\* The test of the fallback loop in the service's own copy of the search
\* (progressive_overload.rs 458-459): any week-1 workout of the same routine
IsWeek1SameRoutine(workout, current) ==
    /\ ExtractWeekFromTitle(workout.title) = Some(1)
    /\ workout.routine_id = current.routine_id

RECURSIVE FirstWeek1SameRoutine(_, _)
FirstWeek1SameRoutine(page, current) ==
    IF page = << >> THEN None
    ELSE IF IsWeek1SameRoutine(Head(page), current) THEN Some(Head(page))
    ELSE FirstWeek1SameRoutine(Tail(page), current)

\* The context the service's own copy builds (progressive_overload.rs
\* 111-134): the label of the reference is always the week-1 one
ServiceTransitionContext(next_week_index, reference) ==
    IF reference = None
    THEN DeloadContext(next_week_index, "\n\n" \o GenerateDeloadInstruction(FALSE), "")
    ELSE DeloadContext(next_week_index, "\n\n" \o GenerateDeloadInstruction(TRUE),
           "\n\nWEEK 1 REFERENCE WORKOUT (for deload calculation):\n"
             \o FormatWorkoutForPrompt(reference[1]))

\* ----------------------------------------- services/deload: the state machine
\* The two copies of the search: the builder of services/deload and the one
\* ProgressiveOverloadService carries and calls
Copies == { "deload", "progressive_overload" }

CurrentTitles ==
    { Words(<< "Week", "8" >>),
      Words(<< "Day", "1", "-", "Week", "8" >>),
      Words(<< "Day", "2", "-", "Week", "9" >>),
      Words(<< "Day", "1", "-", "Week", "7" >>),
      Words(<< "Day", "1", "-", "Week", "3" >>),
      Words(<< "Push", "Day" >>) }

Week1Day1 == HistoryWorkout("h1", Words(<< "Day", "1", "-", "Week", "1" >>), "R2")
Week1Day1Again == HistoryWorkout("h2", Words(<< "Day", "1", "-", "Week", "1" >>), "R1")
Week1Day3 == HistoryWorkout("h3", Words(<< "Day", "3", "-", "Week", "1" >>), "R1")
Week7Day1 == HistoryWorkout("h4", Words(<< "Day", "1", "-", "Week", "7" >>), "R1")
Week7OtherRoutine == HistoryWorkout("h5", Words(<< "Day", "1", "-", "Week", "7" >>), "R2")

\* Where a history workout sits: on no page, the first or the last searched
Placements == { MaxPages, 0, MaxPages - 1 }

OnPage(w, at, page) == IF at = page THEN << w >> ELSE << >>

\* The pages the tracker serves, by the page index of the request
HistoryOf(at3, at7, at1, at2) ==
    [ page \in 0..(MaxPages - 1) |->
        (IF page = 0 THEN << Week7OtherRoutine >> ELSE << >>)
          \o OnPage(Week1Day3, at3, page) \o OnPage(Week7Day1, at7, page)
          \o OnPage(Week1Day1, at1, page) \o OnPage(Week1Day1Again, at2, page) ]

Histories ==
    { HistoryOf(at3, at7, at1, at2) :
        at3 \in Placements, at7 \in Placements, at1 \in Placements,
        at2 \in { MaxPages, MaxPages - 1 } }

\* total_count of the tracker's replies: within the first page, within the
\* second, beyond the page cap
TotalCounts == { 5, 15, 200 }

DeloadStart(copy, title, history, total_count) ==
    [ pc |-> "start", copy |-> copy, title |-> title, routine_id |-> "R1",
      week |-> 0, routine_title |-> "", history |-> history,
      total_count |-> total_count, page |-> 0,
      fetches1 |-> 0, fetches2 |-> 0, last_ok |-> FALSE, any_ok |-> FALSE,
      seen1 |-> << >>, seen2 |-> << >>, reference |-> None, ctx |-> None,
      prompt |-> None ]

DeloadInit ==
    /\ processed = { }
    /\ proc = [ p \in Procs |-> IdleProc ]
    /\ cron = [ pc |-> "idle", window |-> << >> ]
    /\ passes = 0
    /\ workouts = [ i \in Ids |-> RecentRoutineWorkout ]
    /\ routine = InitialRoutine
    /\ deliveries = 0
    /\ last = Silent
    /\ terminal = { }
    /\ failed = { }
    /\ retries = [ i \in Ids |-> 0 ]
    /\ mainReq = MainIdle
    /\ mainLog = << >>
    /\ sched = SchedIdle
    /\ call = CallIdle
    /\ mtx = MtxIdle
    /\ \E copy \in Copies, title \in CurrentTitles, history \in Histories,
          total_count \in TotalCounts :
         dl = DeloadStart(copy, title, history, total_count)

DeloadFrame == UNCHANGED << serviceVars, mainVars, sched, call, mtx >>

\* What the caller hands over: the current workout
CurrentWorkout == [ title |-> dl.title, routine_id |-> dl.routine_id ]

\* Ok(Some), Ok(None) of find_week1_reference_with_fallback in the context
ContextOf(reference) ==
    IF dl.copy = "deload" THEN TransitionContext(NextWeekIndex(dl.week), reference)
    ELSE ServiceTransitionContext(NextWeekIndex(dl.week), reference)

\* A builder that gives up the search for a title without a day number
CreateDeloadTransitionContextDayOnly ==
    /\ dl.pc = "start"
    /\ LET current_week_index == ExtractWeekAndDay(dl.title).week
           begun == [ dl EXCEPT !.week = current_week_index,
                                !.routine_title = DetermineRoutineTitleFormat(dl.title) ]
       IN  dl' = IF ~IsDeloadTransition(current_week_index)
                 THEN [ begun EXCEPT !.pc = "context",
                          !.ctx = Some(DeloadContext(NextWeekIndex(current_week_index), "", "")) ]
                 ELSE IF ExtractDayFromTitle(dl.title) = None
                 THEN [ begun EXCEPT !.pc = "context",
                          !.ctx = Some(DeloadContext(NextWeekIndex(current_week_index),
                                     "\n\n" \o GenerateDeloadInstruction(FALSE), "")) ]
                 ELSE [ begun EXCEPT !.pc = "week1" ]
    /\ DeloadFrame

\* progressive_overload.rs 97-111 and create_deload_transition_context up to
\* the first request of the search: the week and the next title from the
\* title, the empty context below week 8, else into find_week1_reference,
\* which returns Ok(None) at once for a title without a day number
CreateDeloadTransitionContext ==
    /\ dl.pc = "start"
    /\ LET current_week_index == ExtractWeekAndDay(dl.title).week
           begun == [ dl EXCEPT !.week = current_week_index,
                                !.routine_title = DetermineRoutineTitleFormat(dl.title) ]
       IN  dl' = IF ~IsDeloadTransition(current_week_index)
                 THEN [ begun EXCEPT !.pc = "context",
                          !.ctx = Some(DeloadContext(NextWeekIndex(current_week_index), "", "")) ]
                 ELSE IF ExtractDayFromTitle(dl.title) = None
                 THEN [ begun EXCEPT !.pc = "fallback" ]
                 ELSE [ begun EXCEPT !.pc = "week1" ]
    /\ DeloadFrame

\* The loop of find_week1_reference leaves for the fallback loop
EndOfWeek1Search(d) == [ d EXCEPT !.pc = "fallback", !.page = 0, !.last_ok = FALSE ]

\* A failed request that ends the first loop, as a "break" would
FindWeek1FetchErrBreaks ==
    /\ dl.pc = "week1"
    /\ dl' = EndOfWeek1Search([ dl EXCEPT !.fetches1 = @ + 1, !.last_ok = FALSE ])
    /\ DeloadFrame

\* get_workouts(page, page_size) fails in find_week1_reference: continue
FindWeek1FetchErr ==
    /\ dl.pc = "week1"
    /\ LET fetched == [ dl EXCEPT !.fetches1 = @ + 1, !.last_ok = FALSE ]
       IN  dl' = IF dl.page + 1 >= MaxPages
                 THEN EndOfWeek1Search(fetched)
                 ELSE [ fetched EXCEPT !.page = @ + 1 ]
    /\ DeloadFrame

\* get_workouts(page, page_size) answers in find_week1_reference
FindWeek1FetchOk ==
    /\ dl.pc = "week1"
    /\ LET current_day == ExtractDayFromTitle(dl.title)[1]
           found == FirstWeek1SameDay(dl.history[dl.page], current_day)
           fetched == [ dl EXCEPT !.fetches1 = @ + 1, !.last_ok = TRUE,
                                  !.any_ok = TRUE,
                                  !.seen1 = @ \o dl.history[dl.page] ]
       IN  dl' = IF found # None
                 THEN [ fetched EXCEPT !.pc = "context", !.reference = found,
                                       !.ctx = Some(ContextOf(found)) ]
                 ELSE IF ReachedTotalCount(dl.page, dl.total_count)
                         \/ dl.page + 1 >= MaxPages
                 THEN EndOfWeek1Search(fetched)
                 ELSE [ fetched EXCEPT !.page = @ + 1 ]
    /\ DeloadFrame

\* find_week1_reference_with_fallback returns Ok(None)
EndOfFallbackSearch(d) == [ d EXCEPT !.pc = "context", !.ctx = Some(ContextOf(None)) ]

\* A failed request that ends the attempt, as a "?" on the request would
FallbackFetchErrAborts ==
    /\ dl.pc = "fallback"
    /\ dl' = [ dl EXCEPT !.pc = "aborted", !.fetches2 = @ + 1, !.last_ok = FALSE ]
    /\ DeloadFrame

\* get_workouts(page, page_size) fails in the fallback loop: continue
FallbackFetchErr ==
    /\ dl.pc = "fallback"
    /\ LET fetched == [ dl EXCEPT !.fetches2 = @ + 1, !.last_ok = FALSE ]
       IN  dl' = IF dl.page + 1 >= MaxPages
                 THEN EndOfFallbackSearch(fetched)
                 ELSE [ fetched EXCEPT !.page = @ + 1 ]
    /\ DeloadFrame

\* get_workouts(page, page_size) answers in the fallback loop
FallbackFetchOk ==
    /\ dl.pc = "fallback"
    /\ LET found == IF dl.copy = "deload"
                    THEN FirstMaxEffortSameRoutine(dl.history[dl.page], CurrentWorkout)
                    ELSE FirstWeek1SameRoutine(dl.history[dl.page], CurrentWorkout)
           fetched == [ dl EXCEPT !.fetches2 = @ + 1, !.last_ok = TRUE,
                                  !.any_ok = TRUE,
                                  !.seen2 = @ \o dl.history[dl.page] ]
       IN  dl' = IF found # None
                 THEN [ fetched EXCEPT !.pc = "context", !.reference = found,
                                       !.ctx = Some(ContextOf(found)) ]
                 ELSE IF ReachedTotalCount(dl.page, dl.total_count)
                         \/ dl.page + 1 >= MaxPages
                 THEN EndOfFallbackSearch(fetched)
                 ELSE [ fetched EXCEPT !.page = @ + 1 ]
    /\ DeloadFrame

\* The rest of build_progressive_overload_prompt: the context goes into the
\* prompt, which is returned for generate_text
BuildProgressiveOverloadPrompt ==
    /\ dl.pc = "context"
    /\ dl' = [ dl EXCEPT !.pc = "generate",
                 !.prompt = Some([ routine_title |-> dl.routine_title,
                                   next_week_index |-> dl.ctx[1].next_week_index,
                                   cycle_instruction |-> dl.ctx[1].cycle_instruction,
                                   reference_data |-> dl.ctx[1].reference_data ]) ]
    /\ DeloadFrame

DeloadNext ==
    \/ CreateDeloadTransitionContext
    \/ FindWeek1FetchErr
    \/ FindWeek1FetchOk
    \/ FallbackFetchErr
    \/ FallbackFetchOk
    \/ BuildProgressiveOverloadPrompt

DeloadSpec == DeloadInit /\ [][DeloadNext]_vars

\* Every request of the search returns
DeloadFairSpec == DeloadSpec /\ WF_vars(DeloadNext)

\* ------------------------------------ the search over the tracker's own pages
\* The history as the tracker holds it, newest first: workouts of another
\* routine in the middle of a cycle, and one workout the search looks for
TrackerIds ==
    << "t1", "t2", "t3", "t4", "t5", "t6", "t7", "t8", "t9", "t10",
       "t11", "t12", "t13", "t14", "t15", "t16", "t17", "t18", "t19", "t20",
       "t21", "t22", "t23", "t24", "t25" >>

\* total_count of the tracker: within one page, within two, within three
HistorySizes == { 5, 15, 25 }

TrackerWorkouts(size, sought, at) ==
    [ k \in 1..size |->
        IF k = at THEN sought
        ELSE HistoryWorkout(TrackerIds[k],
                            Words(<< "Day", "2", "-", "Week", "3" >>), "R2") ]

\* The number the tracker gives its first page is not in the source: the
\* client passes "page" on as it is (hevy.rs 55-60), run_sync asks for page 1
\* (scheduler.rs 32) and the search for pages 0..9 (deload.rs 145-146). What
\* a tracker that counts from 1 serves for page 0 is open as well
Numberings == { "from0", "from1_page0_as_page1", "from1_page0_empty" }

PageSlice(all, number, page_size) ==
    LET first == (number - 1) * page_size + 1
        end   == IF number * page_size < Len(all) THEN number * page_size
                 ELSE Len(all)
    IN  IF number < 1 THEN << >> ELSE SubSeq(all, first, end)

\* GET /v1/workouts?page=&pageSize= as the tracker serves it
TrackerPage(all, numbering, page, page_size) ==
    IF numbering = "from0" THEN PageSlice(all, page + 1, page_size)
    ELSE IF page = 0 /\ numbering = "from1_page0_as_page1"
    THEN PageSlice(all, 1, page_size)
    ELSE PageSlice(all, page, page_size)

TrackerHistory(all, numbering) ==
    [ page \in 0..(MaxPages - 1) |-> TrackerPage(all, numbering, page, PageSize) ]

PagingInit ==
    /\ processed = { }
    /\ proc = [ p \in Procs |-> IdleProc ]
    /\ cron = [ pc |-> "idle", window |-> << >> ]
    /\ passes = 0
    /\ workouts = [ i \in Ids |-> RecentRoutineWorkout ]
    /\ routine = InitialRoutine
    /\ deliveries = 0
    /\ last = Silent
    /\ terminal = { }
    /\ failed = { }
    /\ retries = [ i \in Ids |-> 0 ]
    /\ mainReq = MainIdle
    /\ mainLog = << >>
    /\ sched = SchedIdle
    /\ call = CallIdle
    /\ mtx = MtxIdle
    /\ \E copy \in Copies, title \in CurrentTitles, size \in HistorySizes,
          sought \in { Week1Day1, Week7Day1 }, numbering \in Numberings :
         \E at \in { 0, 1, size } :
           LET all == TrackerWorkouts(size, sought, at)
           IN  dl = DeloadStart(copy, title, TrackerHistory(all, numbering), Len(all))
                      @@ [ all |-> all, numbering |-> numbering ]

\* The search of DeloadSpec, over the pages of such a tracker
PagingSpec == PagingInit /\ [][DeloadNext]_vars

\* ------------------------------ api/webhooks: from the reply to the write-back
\* The synchronous part of process_single_workout, for one workout, one
\* routine and one reply of the model at a time
BenchWithRpe ==
    Exercise(0, "Bench Press (Barbell)", Some("Keep RPE 8"), "T1",
             << ExerciseSet(0, "warmup", Some(400), Some(5), None),
                ExerciseSet(1, "normal", Some(825), Some(5), Some(8)),
                ExerciseSet(2, "normal", Some(800), Some(5), None) >>)

PullUpNoWeight ==
    Exercise(0, "Pull Up", None, "T2",
             << ExerciseSet(0, "normal", None, Some(10), None),
                ExerciseSet(1, "failure", None, None, None) >>)

FacePullAllWarmup ==
    Exercise(1, "Face Pull", Some("rpe about 7-8"), "T9",
             << ExerciseSet(0, "Warmup", Some(100), Some(12), None),
                ExerciseSet(1, "WARMUP", Some(125), Some(12), None) >>)

PlankNoSets == Exercise(2, "Plank", None, "T3", << >>)

ReplyExerciseLists ==
    { << >>,
      << BenchWithRpe >>,
      << PullUpNoWeight, FacePullAllWarmup >>,
      << PlankNoSets, BenchWithRpe, PullUpNoWeight >> }

\* What a reply may carry under "week_number" and under "routine_title"
WeekNumberValues == { None, Some(JNumber(3)), Some(JNumber(0 - 2)), Some(JString("three")) }

RoutineTitleValues ==
    { None, Some(JString("Day 1 - Week 3")), Some(JString("Block B")), Some(JNumber(7)) }

\* The JSON object with "updated_exercises" and the ancillary keys it has
ReplyObject(exercises, week_number, routine_title) ==
    [ key \in { "updated_exercises" }
              \cup (IF week_number = None THEN { } ELSE { "week_number" })
              \cup (IF routine_title = None THEN { } ELSE { "routine_title" }) |->
        CASE key = "updated_exercises" -> exercises
          [] key = "week_number" -> week_number[1]
          [] OTHER -> routine_title[1] ]

WellFormedReplies ==
    { RawReply(fenced, prose, JObject(ReplyObject(JExercises(exs), week, title))) :
        fenced \in BOOLEAN, prose \in BOOLEAN, exs \in ReplyExerciseLists,
        week \in WeekNumberValues, title \in RoutineTitleValues }

\* Replies with "updated_exercises" that is no array of exercises, or absent,
\* and text that is not JSON
MalformedReplies ==
    { RawReply(fenced, FALSE, content) :
        fenced \in BOOLEAN,
        content \in { NotJson,
                      JString("updated_exercises"),
                      JObject(ReplyObject(JString("none"), Some(JNumber(3)), None)),
                      JObject(ReplyObject(JNumber(3), None, Some(JString("Day 1 - Week 3")))),
                      ReplyMissing.content } }

PayloadReplies == WellFormedReplies \cup MalformedReplies

PayloadTitles ==
    { Words(<< "Day", "1", "-", "Week", "2" >>),
      Words(<< "Day", "2", "-", "Week", "7" >>),
      << "Day", "4", " ", "-", "week", " ", "2" >>,
      Words(<< "Day", "3", "-", "Week", "8" >>) }

\* A second routine of the tracker, with notes on an exercise the replies
\* have no working set for
OtherRoutine ==
    [ id |-> "R1", title |-> "Day 2 - Week 7",
      exercises |-> <<
        Exercise(0, "Face Pull", Some("Slow tempo"), "T9",
                 << ExerciseSet(0, "normal", Some(150), Some(12), Some(7)) >>),
        Exercise(1, "Pull Up", None, "T2",
                 << ExerciseSet(0, "normal", None, Some(8), None) >>) >> ]

PayloadStart(title, r, reply) ==
    [ pc |-> "reply", title |-> title, routine |-> r, reply |-> reply,
      asked_title |-> "", response |-> None, suggestions |-> << >>,
      update |-> None ]

PayloadInit ==
    /\ processed = { }
    /\ proc = [ p \in Procs |-> IdleProc ]
    /\ cron = [ pc |-> "idle", window |-> << >> ]
    /\ passes = 0
    /\ workouts = [ i \in Ids |-> RecentRoutineWorkout ]
    /\ routine = InitialRoutine
    /\ deliveries = 0
    /\ last = Silent
    /\ terminal = { }
    /\ failed = { }
    /\ retries = [ i \in Ids |-> 0 ]
    /\ mainReq = MainIdle
    /\ mainLog = << >>
    /\ sched = SchedIdle
    /\ dl = DeloadIdle
    /\ \E title \in PayloadTitles, r \in { InitialRoutine, OtherRoutine },
          reply \in PayloadReplies :
         call = PayloadStart(title, r, reply)
    /\ mtx = MtxIdle

PayloadFrame == UNCHANGED << serviceVars, mainVars, sched, dl, mtx >>

\* process_workout_completion from the reply on: the prompt has asked for
\* the title determine_routine_title_format gives; the reply is parsed
ProcessWorkoutCompletion ==
    /\ call.pc = "reply"
    /\ LET response == ParseGeminiResponse(call.reply)
       IN  call' = [ call EXCEPT
                       !.pc = IF response.ok THEN "parsed" ELSE "malformed",
                       !.asked_title = DetermineRoutineTitleFormat(call.title),
                       !.response = IF response.ok THEN Some(response) ELSE None ]
    /\ PayloadFrame

\* process_single_workout from the response to the RoutineUpdate it sends
PrepareRoutineUpdate ==
    /\ call.pc = "parsed"
    /\ call' = [ call EXCEPT
                   !.pc = "update",
                   !.suggestions = BuildExerciseSuggestions(call.response[1]),
                   !.update = Some(RoutineUpdate(call.response[1],
                                [ k \in 1..Len(call.routine.exercises) |->
                                    ToUpdateFormat(call.routine.exercises[k]) ])) ]
    /\ PayloadFrame

\* The tracker applies the update
PutRoutine ==
    /\ call.pc = "update"
    /\ call' = [ call EXCEPT !.pc = "written",
                             !.routine = ApplyUpdate(call.routine, call.update[1]) ]
    /\ PayloadFrame

PayloadNext ==
    \/ ProcessWorkoutCompletion
    \/ PrepareRoutineUpdate
    \/ PutRoutine

PayloadSpec == PayloadInit /\ [][PayloadNext]_vars

\* ------------------------- the Mutex of processed_workout_ids, guard by guard
\* Every lock(), every use of the set under the guard, every drop of the
\* guard and every .await of run_sync and process_single_workout is a step.
\*   at[p]   where p stands: before an .await ("get_workout", "get_routine",
\*           "generate", "update_routine", "get_workouts"), before a lock()
\*           ("lock_..."), under the guard before the use of the set
\*           ("insert_...", "contains_check") or after it ("drop_...")
\*   holder  the process whose guard is alive
\*   uses    uses of the set under the guard that is alive
AwaitPositions ==
    { "get_workout", "get_routine", "generate", "update_routine", "get_workouts" }

LockPositions == { "lock_no_routine", "lock_mark", "lock_check" }

GuardPositions ==
    { "insert_no_routine", "drop_no_routine", "insert_mark", "drop_mark",
      "contains_check", "drop_check" }

\* The windows a pass may find
LockWindows == { << >>, << 1 >>, << 1, 2 >>, << 2, 1 >> }

LockInit ==
    /\ processed = { }
    /\ proc = [ p \in Procs |-> IdleProc ]
    /\ cron = [ pc |-> "idle", window |-> << >> ]
    /\ passes = 0
    /\ workouts = [ i \in Ids |-> RecentRoutineWorkout ]
    /\ routine = InitialRoutine
    /\ deliveries = 0
    /\ last = Silent
    /\ terminal = { }
    /\ failed = { }
    /\ retries = [ i \in Ids |-> 0 ]
    /\ mainReq = MainIdle
    /\ mainLog = << >>
    /\ sched = SchedIdle
    /\ dl = DeloadIdle
    /\ call = CallIdle
    /\ mtx = [ pc |-> "running",
               at |-> [ p \in Procs |-> "idle" ],
               id |-> [ p \in Procs |-> 0 ],
               holder |-> None, uses |-> 0,
               set |-> { }, found |-> FALSE, window |-> << >>,
               spawned |-> 0, passes |-> 0 ]

LockFrame == UNCHANGED << serviceVars, mainVars, sched, dl, call >>

\* Where process_single_workout returns to: the task ends, run_sync goes on
\* with its loop
AfterProcessing(p) == IF p = Cron THEN "loop" ELSE "done"

\* handle_workout_completion: tokio::spawn(process_single_workout)
SpawnTask(p, i) ==
    /\ mtx.pc = "running"
    /\ p \in Tasks /\ mtx.at[p] = "idle"
    /\ p = mtx.spawned + 1
    /\ mtx' = [ mtx EXCEPT !.at[p] = "get_workout", !.id[p] = i, !.spawned = p ]
    /\ LockFrame

\* get_workout(&workout_id).await: an error returns, a workout without a
\* routine goes to mark it, any other goes on
AwaitGetWorkout(p, outcome) ==
    /\ mtx.pc = "running"
    /\ mtx.at[p] = "get_workout"
    /\ mtx' = [ mtx EXCEPT !.at[p] =
                   CASE outcome = "err" -> AfterProcessing(p)
                     [] outcome = "no_routine" -> "lock_no_routine"
                     [] OTHER -> "get_routine" ]
    /\ LockFrame

\* get_routine(..).await
AwaitGetRoutine(p, ok) ==
    /\ mtx.pc = "running"
    /\ mtx.at[p] = "get_routine"
    /\ mtx' = [ mtx EXCEPT !.at[p] = IF ok THEN "generate" ELSE AfterProcessing(p) ]
    /\ LockFrame

\* process_workout_completion(..).await
AwaitGenerate(p, ok) ==
    /\ mtx.pc = "running"
    /\ mtx.at[p] = "generate"
    /\ mtx' = [ mtx EXCEPT !.at[p] = IF ok THEN "update_routine"
                                     ELSE AfterProcessing(p) ]
    /\ LockFrame

\* update_routine(..).await: logged either way, then the id is marked
AwaitUpdateRoutine(p) ==
    /\ mtx.pc = "running"
    /\ mtx.at[p] = "update_routine"
    /\ mtx' = [ mtx EXCEPT !.at[p] = "lock_mark" ]
    /\ LockFrame

\* processed_workout_ids.lock().unwrap(): blocks while a guard is alive
LockAcquire(p) ==
    /\ mtx.pc = "running"
    /\ mtx.at[p] \in LockPositions
    /\ mtx.holder = None
    /\ mtx' = [ mtx EXCEPT !.holder = Some(p), !.uses = 0,
                           !.at[p] = CASE mtx.at[p] = "lock_no_routine" -> "insert_no_routine"
                                       [] mtx.at[p] = "lock_mark" -> "insert_mark"
                                       [] OTHER -> "contains_check" ]
    /\ LockFrame

\* .insert(workout_id) on the guard
LockedInsert(p) ==
    /\ mtx.pc = "running"
    /\ mtx.at[p] \in { "insert_no_routine", "insert_mark" }
    /\ mtx' = [ mtx EXCEPT !.set = @ \cup { mtx.id[p] }, !.uses = @ + 1,
                           !.at[p] = IF mtx.at[p] = "insert_no_routine"
                                     THEN "drop_no_routine" ELSE "drop_mark" ]
    /\ LockFrame

\* The temporary guard dies at the end of the statement; the function returns
DropAfterInsert(p) ==
    /\ mtx.pc = "running"
    /\ mtx.at[p] \in { "drop_no_routine", "drop_mark" }
    /\ mtx' = [ mtx EXCEPT !.holder = None, !.at[p] = AfterProcessing(p) ]
    /\ LockFrame

\* run_sync starts (the scheduler's job)
RunSyncBegin ==
    /\ mtx.pc = "running"
    /\ mtx.at[Cron] = "idle"
    /\ mtx.passes < MaxPasses
    /\ mtx' = [ mtx EXCEPT !.at[Cron] = "get_workouts", !.passes = @ + 1 ]
    /\ LockFrame

\* get_workouts(1, 10).await? and the retain of the last 24 hours
AwaitGetWorkouts(ok, window) ==
    /\ mtx.pc = "running"
    /\ mtx.at[Cron] = "get_workouts"
    /\ mtx' = [ mtx EXCEPT !.at[Cron] = IF ok THEN "loop" ELSE "idle",
                           !.window = IF ok THEN window ELSE << >> ]
    /\ LockFrame

\* for workout in workouts: the next one, or the end of the pass
RunSyncLoop ==
    /\ mtx.pc = "running"
    /\ mtx.at[Cron] = "loop"
    /\ mtx' = IF mtx.window = << >>
              THEN [ mtx EXCEPT !.at[Cron] = "idle" ]
              ELSE [ mtx EXCEPT !.at[Cron] = "lock_check",
                                !.id[Cron] = Head(mtx.window),
                                !.window = Tail(mtx.window) ]
    /\ LockFrame

\* processed.contains(&workout_id) on the guard
LockedContains ==
    /\ mtx.pc = "running"
    /\ mtx.at[Cron] = "contains_check"
    /\ mtx' = [ mtx EXCEPT !.found = mtx.id[Cron] \in mtx.set, !.uses = @ + 1,
                           !.at[Cron] = "drop_check" ]
    /\ LockFrame

\* The guard lives on into process_single_workout
DropAfterCheckKeepsGuard ==
    /\ mtx.pc = "running"
    /\ mtx.at[Cron] = "drop_check"
    /\ mtx' = [ mtx EXCEPT !.at[Cron] = IF mtx.found THEN "loop" ELSE "get_workout",
                           !.holder = IF mtx.found THEN None ELSE mtx.holder ]
    /\ LockFrame

\* The block around the guard ends (scheduler.rs 51-57): the guard dies
\* before "continue" and before process_single_workout(..).await
DropAfterCheck ==
    /\ mtx.pc = "running"
    /\ mtx.at[Cron] = "drop_check"
    /\ mtx' = [ mtx EXCEPT !.holder = None,
                           !.at[Cron] = IF mtx.found THEN "loop" ELSE "get_workout" ]
    /\ LockFrame

LockNext ==
    \/ \E p \in Tasks, i \in Ids : SpawnTask(p, i)
    \/ \E p \in Procs, outcome \in { "err", "no_routine", "routine" } :
         AwaitGetWorkout(p, outcome)
    \/ \E p \in Procs, ok \in BOOLEAN : AwaitGetRoutine(p, ok)
    \/ \E p \in Procs, ok \in BOOLEAN : AwaitGenerate(p, ok)
    \/ \E p \in Procs : AwaitUpdateRoutine(p)
    \/ \E p \in Procs : LockAcquire(p)
    \/ \E p \in Procs : LockedInsert(p)
    \/ \E p \in Procs : DropAfterInsert(p)
    \/ RunSyncBegin
    \/ \E ok \in BOOLEAN, window \in LockWindows : AwaitGetWorkouts(ok, window)
    \/ RunSyncLoop
    \/ LockedContains
    \/ DropAfterCheck

LockSpec == LockInit /\ [][LockNext]_vars

\* ------------------------------------- reconciliation without an end of time
\* The same steps of run_sync with the counts of passes and retries left
\* alone, so that passes go on for ever in a finite state space.
RunSyncFetchErrForever ==
    /\ cron.pc = "idle"
    /\ last' = Event("sync_failed", 0, 0)
    /\ UNCHANGED << processed, proc, cron, passes, workouts, routine,
                    deliveries, terminal, failed, retries, mainVars, sideVars >>

RunSyncFetchOkForever ==
    /\ cron.pc = "idle"
    /\ cron' = [ pc |-> "loop",
                 window |-> RetainRecent(GetWorkouts(SyncPage, SyncPageSize)) ]
    /\ last' = Silent
    /\ UNCHANGED << processed, proc, passes, workouts, routine, deliveries,
                    terminal, failed, retries, mainVars, sideVars >>

RunSyncNextForever ==
    /\ cron.pc = "loop"
    /\ proc[Cron].pc = "idle"
    /\ cron.window # << >>
    /\ LET i == Head(cron.window)
       IN  /\ cron' = [ cron EXCEPT !.window = Tail(cron.window) ]
           /\ IF AlreadyProcessed(processed, i)
              THEN /\ last' = Event("already_processed", i, 0)
                   /\ UNCHANGED proc
              ELSE /\ proc' = [ proc EXCEPT ![Cron] = StartAttempt(i) ]
                   /\ last' = Silent
    /\ UNCHANGED << processed, passes, workouts, routine, deliveries, terminal,
                    failed, retries, mainVars, sideVars >>

LiveNext ==
    \/ \E header \in Headers, i \in Ids : HandleWorkoutCompletion(header, i)
    \/ \E p \in Procs : GetWorkoutErr(p)
    \/ \E p \in Procs : GetWorkoutOk(p)
    \/ \E p \in Procs : GetRoutineErr(p)
    \/ \E p \in Procs : GetRoutineOk(p)
    \/ \E p \in Procs : GenerateErr(p)
    \/ \E p \in Procs, reply \in LlmReplies : GenerateOk(p, reply)
    \/ \E p \in Procs, ok \in BOOLEAN, applied \in BOOLEAN :
         UpdateRoutine(p, ok, applied)
    \/ RunSyncFetchErrForever
    \/ RunSyncFetchOkForever
    \/ RunSyncNextForever
    \/ RunSyncDone

\* A call the scheduler's attempt makes again and again succeeds in the end:
\* if the attempt is at `from` infinitely often, it goes on to `to`
\* infinitely often.
SucceedsInTheEnd(from, to) ==
    []<>(proc[Cron].pc = from)
      => []<><< proc[Cron].pc = from /\ proc'[Cron].pc = to >>_vars

\* The cron job keeps firing and run_sync keeps going; the tracker and the
\* model answer every call, and with success in the end (for the model: with
\* a reply that parses).
LiveFairness ==
    /\ WF_vars(RunSyncFetchOkForever)
    /\ WF_vars(RunSyncNextForever)
    /\ WF_vars(RunSyncDone)
    /\ SucceedsInTheEnd("get_workout", "get_routine")
    /\ SucceedsInTheEnd("get_routine", "generate")
    /\ SucceedsInTheEnd("generate", "update_routine")
    /\ WF_vars(\E ok \in BOOLEAN, applied \in BOOLEAN :
                 UpdateRoutine(Cron, ok, applied))

LiveSpec == Init /\ [][LiveNext]_vars /\ LiveFairness

\* ------------------------------------------------ scheduler: start_scheduler
\* The wall clock counts whole minutes of the hour the process starts in and
\* of what follows; the process starts somewhere in the first quarter hour.
SchedInit ==
    /\ processed = { }
    /\ proc = [ p \in Procs |-> IdleProc ]
    /\ cron = [ pc |-> "idle", window |-> << >> ]
    /\ passes = 0
    /\ workouts = [ i \in Ids |-> RecentRoutineWorkout ]
    /\ routine = InitialRoutine
    /\ deliveries = 0
    /\ last = Silent
    /\ terminal = { }
    /\ failed = { }
    /\ retries = [ i \in Ids |-> 0 ]
    /\ mainReq = MainIdle
    /\ mainLog = << >>
    /\ \E m \in 0..(CronEveryMinutes - 1) : sched = [ SchedIdle EXCEPT !.minute = m ]
    /\ dl = DeloadIdle
    /\ call = CallIdle
    /\ mtx = MtxIdle

\* The cron expression "0 */15 * * * *": second 0 of every 15th minute
CronMatches(minute) == minute % CronEveryMinutes = 0

\* start_scheduler: the job is added and the scheduler started, some time
\* within the current minute; nothing in it calls run_sync
StartScheduler ==
    /\ ~sched.started
    /\ sched' = [ sched EXCEPT !.started = TRUE, !.started_at = sched.minute ]
    /\ UNCHANGED << serviceVars, mainVars, dl, call, mtx >>

\* A minute boundary the job does not run at: the expression does not match
\* it, or the scheduler is not started
ClockTick ==
    /\ sched.minute < MaxMinute
    /\ ~(sched.started /\ CronMatches(sched.minute + 1))
    /\ sched' = [ sched EXCEPT !.minute = @ + 1 ]
    /\ UNCHANGED << serviceVars, mainVars, dl, call, mtx >>

\* A minute boundary the expression matches: the job's closure calls run_sync
CronJob ==
    /\ sched.minute < MaxMinute
    /\ sched.started
    /\ CronMatches(sched.minute + 1)
    /\ sched' = [ sched EXCEPT !.minute = @ + 1, !.runs = @ + 1 ]
    /\ UNCHANGED << serviceVars, mainVars, dl, call, mtx >>

SchedNext ==
    \/ StartScheduler
    \/ ClockTick
    \/ CronJob

SchedSpec == SchedInit /\ [][SchedNext]_vars

\* ================================================================ claims
InPipeline(p) ==
    proc[p].pc \in { "get_workout", "get_routine", "generate", "update_routine" }

\* The turn run_sync's loop takes for the id at the head of its window
LoopTurn == cron.pc = "loop" /\ cron.window # << >> /\ cron'.window # cron.window

\* C1: an id is in the processed set exactly when some attempt for it reached
\* a terminal state (end of the pipeline, or the no-routine short-circuit); an
\* attempt stopped by a failed fetch, generation or parse inserts nothing.
C1_ProcessedIffTerminal ==
    /\ processed = terminal
    /\ (last.kind \in FailureOutcomes /\ last.id \notin terminal)
         => last.id \notin processed

C1_Witness ==
    /\ last.kind \in FailureOutcomes
    /\ last.id \notin processed
    /\ processed # { }

\* C2: a turn of the reconciliation loop for an id that is in the processed
\* set skips it: no attempt starts, nothing is fetched or written, and the
\* set stays as it is.
C2_ProcessedIsSkipped ==
    [][ (LoopTurn /\ Head(cron.window) \in processed)
          => /\ proc' = proc
             /\ processed' = processed
             /\ routine' = routine
             /\ last' = Event("already_processed", Head(cron.window), 0) ]_vars

C2_Witness ==
    /\ last.kind = "already_processed"
    /\ last.id \in processed
    /\ passes >= 2

\* C3: every authenticated webhook delivery spawns a processing attempt,
\* whether or not its id is in the processed set.
C3_WebhookAlwaysSpawns ==
    (last.kind = "response" /\ last.status = StatusOk)
      => /\ proc[deliveries].pc = "get_workout"
         /\ proc[deliveries].id = last.id
         /\ proc[deliveries].dup = (last.id \in processed)

\* A webhook attempt for an id that was processed when it started has had its
\* model reply and is about to write the routine back.
C3_Witness ==
    \E p \in Tasks : proc[p].dup /\ proc[p].pc = "update_routine"

\* C4: when the routine update fails the id is marked processed all the same,
\* and the scheduler writes back only for ids that were not marked when it
\* checked them.
C4_FailedWriteBackIsFinal ==
    /\ last.kind = "update_failed" => last.id \in processed
    /\ InPipeline(Cron) => ~proc[Cron].dup

C4_Witness ==
    /\ last.kind = "update_failed"
    /\ last.id \in processed
    /\ cron.pc = "loop"
    /\ cron.window # << >>
    /\ Head(cron.window) = last.id

\* C5: for a workout whose routine id is empty or "null", an attempt never
\* gets to the routine fetch, the model call or the write-back, and ends
\* with the id marked processed.
C5_NoRoutineShortCircuit ==
    /\ \A p \in Procs :
         proc[p].pc \in { "get_routine", "generate", "update_routine" }
           => workouts[proc[p].id].routine_id \notin { "", "null" }
    /\ last.kind = "no_routine"
         => /\ last.id \in processed
            /\ workouts[last.id].routine_id \in { "", "null" }

C5_Witness ==
    /\ last.kind = "no_routine"
    /\ workouts[last.id].routine_id = "null"
    /\ last.id \in processed

\* C6 as stated: after a failed attempt, reconciliation makes no more than one
\* further attempt for the id.
C6_AtMostOneRetry == \A i \in Ids : retries[i] <= 1

\* C6 as amended: a failed attempt inserts nothing (the id is in the set only
\* if another attempt for it reached a terminal state), and reconciliation
\* starts at most one further attempt per pass, with no limit of one in all.
C6_FailureLeavesRetryable ==
    \A i \in Ids :
      /\ (i \in failed /\ i \notin terminal) => i \notin processed
      /\ retries[i] <= passes

C6_Witness ==
    \E i \in Ids : retries[i] = 2 /\ i \in failed /\ i \notin processed

\* C7: handling an id again leaves the routine in the state the first
\* handling gave it: a write-back for an id that follows a successful
\* write-back for the same id does not change the routine.
C7_IdempotentEffect ==
    [][ \A p \in Procs :
          ( /\ last = Event("updated", proc[p].id, 0)
            /\ proc[p].pc = "update_routine"
            /\ proc'[p].pc # "update_routine" )
            => routine' = routine ]_vars

\* The four ways the claim names for a header to fail
BadAuthorization(header) ==
    \/ header = None
    \/ ~header[1].is_text
    \/ header[1].chunks = << >>
    \/ header[1].chunks[1] # "Bearer "
    \/ Tail(header[1].chunks) # << WebhookToken >>

\* C8: a request whose Authorization header is missing, not text, without
\* the "Bearer " prefix or with another token is answered 401, spawns nothing
\* and leaves the processed set alone; any other is answered 200.
C8_AuthGate ==
    [][ \A header \in Headers, i \in Ids :
          HandleWorkoutCompletion(header, i)
            => IF BadAuthorization(header)
               THEN /\ last' = Event("response", i, StatusUnauthorized)
                    /\ proc' = proc
                    /\ processed' = processed
               ELSE last' = Event("response", i, StatusOk) ]_vars

C8_Witness ==
    /\ last.kind = "response"
    /\ last.status = StatusUnauthorized
    /\ processed # { }
    /\ \A p \in Tasks : proc[p].pc = "idle"

\* C9: the handler answers an authenticated request 200 without waiting on a
\* tracker call, whatever becomes of the processing.
C9_ImmediateAck ==
    /\ mainReq.pc # "get_workout"
    /\ \A k \in 1..Len(mainLog) :
         ~BadAuthorization(mainLog[k].header)
           => mainLog[k].status = StatusOk /\ ~mainLog[k].awaited

\* C10: no step removes an id from the processed set.
C10_ProcessedMonotone == [][ processed \subseteq processed' ]_vars

C10_Witness ==
    /\ last.kind \in FailureOutcomes
    /\ last.id \in processed
    /\ Cardinality(processed) = NumIds

\* The creation time of workout i parses and lies within the trailing 24 hours
WithinTrailingDay(i) ==
    \E h \in 0..(RecentHours - 1) : workouts[i].created_at = Some(h)

\* C11: a pass walks exactly the ids of the fetched page whose creation time
\* lies within the trailing 24 hours, and of these it dispatches exactly the
\* ones not in the processed set when their turn comes; the scheduler
\* dispatches nothing else.
C11_DispatchesRecentUnprocessed ==
    [][ /\ (cron.pc = "idle" /\ cron'.pc = "loop")
          => /\ { cron'.window[k] : k \in 1..Len(cron'.window) }
                  = { i \in Ids : WithinTrailingDay(i) }
             /\ Len(cron'.window) = Cardinality({ i \in Ids : WithinTrailingDay(i) })
        /\ LoopTurn
          => ( Head(cron.window) \notin processed
                 <=> proc'[Cron] = [ IdleProc EXCEPT !.pc = "get_workout",
                                                     !.id = Head(cron.window) ] )
        /\ (proc[Cron].pc = "idle" /\ proc'[Cron].pc # "idle")
          => /\ LoopTurn
             /\ WithinTrailingDay(proc'[Cron].id)
             /\ proc'[Cron].id \notin processed ]_vars

\* A pass has dispatched a workout while another one of the page is too old
\* or has a creation time that does not parse, and an id is processed
C11_Witness ==
    /\ proc[Cron].pc = "get_workout"
    /\ \E i \in Ids : ~WithinTrailingDay(i)
    /\ processed # { }
    /\ passes = 2

\* C14: a failure ends only the attempt it happens in: every other attempt is
\* where it was, the processed set is the same, and the scheduler's pass
\* keeps the ids it still has to walk; if the attempt was the scheduler's, its
\* loop goes on.
C14_FailureIsContained ==
    [][ last'.kind \in FailureOutcomes
          => \E p \in Procs :
               /\ InPipeline(p)
               /\ proc'[p] = (IF p = Cron THEN IdleProc ELSE DoneProc)
               /\ \A q \in Procs \ { p } : proc'[q] = proc[q]
               /\ processed' = processed
               /\ cron' = cron
               /\ p = Cron => cron.pc = "loop" ]_vars

\* The scheduler's attempt has failed with ids still to walk in the pass,
\* while a webhook task is in flight
C14_Witness ==
    /\ last.kind \in FailureOutcomes
    /\ proc[Cron].pc = "idle"
    /\ cron.pc = "loop"
    /\ cron.window # << >>
    /\ \E p \in Tasks : InPipeline(p)

\* C15: when the model call fails, the attempt ends there: the call is not
\* made again, nothing is parsed or written back, and the processed set is
\* as it was.
C15_GenerationErrorSurfaces ==
    [][ last'.kind = "generation_failed"
          => \E p \in Procs :
               /\ proc[p].pc = "generate"
               /\ proc[p].id = last'.id
               /\ proc'[p].pc \in { "idle", "done" }
               /\ proc'[p].update = None
               /\ routine' = routine
               /\ processed' = processed ]_vars

C15_Witness ==
    /\ last.kind = "generation_failed"
    /\ last.id \notin processed
    /\ \A p \in Procs : proc[p].id # last.id

\* Quarter-hour boundaries passed since the scheduler was started
TicksSinceStart ==
    (sched.minute \div CronEveryMinutes) - (sched.started_at \div CronEveryMinutes)

\* C12: once the scheduler is started, a pass has run for the start itself
\* and one for every 15-minute tick since.
C12_RunsAtStartAndEveryTick ==
    sched.started => sched.runs = 1 + TicksSinceStart

\* C13: a workout that stays in the fetched page with a creation time within
\* the trailing 24 hours is marked processed in the end, whether its webhook
\* never came or its attempts failed, as long as passes keep running and the
\* calls they make succeed in the end.
C13_ReconciliationRecovers ==
    \A i \in Ids : [](WithinTrailingDay(i) => <>(i \in processed))

\* No webhook was delivered, an attempt for the id failed, and the id is
\* processed: reconciliation retried it
C13_Witness ==
    \E i \in Ids :
      /\ deliveries = 0
      /\ i \in failed
      /\ i \in processed
      /\ workouts[i].routine_id = "R1"

\* ------------------------------------------------------------ deload claims
DeloadContextBuilt == dl.pc \in { "context", "generate" }

CurrentWeekIndex == ExtractWeekAndDay(dl.title).week

\* C16: for every current week below 8, whatever the history holds, the
\* context built has nextWeek = current week + 1, empty instruction text and
\* no reference workout, and no page of the history was requested for it
C16_BelowWeek8EmptyContext ==
    (DeloadContextBuilt /\ CurrentWeekIndex < 8)
      => /\ dl.ctx = Some([ next_week_index |-> CurrentWeekIndex + 1,
                            cycle_instruction |-> "",
                            reference_data |-> "" ])
         /\ dl.reference = None
         /\ dl.fetches1 = 0 /\ dl.fetches2 = 0

C16_Witness ==
    /\ dl.pc = "generate"
    /\ dl.title = Words(<< "Day", "1", "-", "Week", "7" >>)
    /\ dl.history[0] # << Week7OtherRoutine >>
    /\ dl.prompt[1].next_week_index = 8
    /\ dl.prompt[1].cycle_instruction = ""

\* The week-1 workout of the current day of the split the first loop came
\* upon in the pages it was served, if any
DiscoverableWeek1SameDay ==
    IF ExtractDayFromTitle(dl.title) = None THEN None
    ELSE FirstWeek1SameDay(dl.seen1, ExtractDayFromTitle(dl.title)[1])

\* The week-7 workout of the current routine the fallback loop came upon in
\* the pages it was served, if any
DiscoverableWeek7SameRoutine == FirstMaxEffortSameRoutine(dl.seen2, CurrentWorkout)

ExpectedReference ==
    IF DiscoverableWeek1SameDay # None THEN DiscoverableWeek1SameDay
    ELSE DiscoverableWeek7SameRoutine

\* C17: for a current week of 8 or more the context is built (never an
\* error), has nextWeek = 1, and its reference is the week-1 workout of the
\* same day of the split if the search came upon one, else the week-7
\* workout of the same routine id if it came upon one, else none, with the
\* reference-free instruction text
C17_ReferenceByPriority ==
    (DeloadContextBuilt /\ CurrentWeekIndex >= 8)
      => /\ dl.ctx # None
         /\ dl.ctx[1].next_week_index = 1
         /\ dl.reference = ExpectedReference
         /\ dl.ctx[1].cycle_instruction
              = "\n\n" \o GenerateDeloadInstruction(ExpectedReference # None)
         /\ dl.ctx[1].reference_data
              = IF ExpectedReference = None THEN ""
                ELSE "\n\n"
                       \o (IF DiscoverableWeek1SameDay # None
                           THEN "WEEK 1 REFERENCE WORKOUT"
                           ELSE "WEEK 7 REFERENCE WORKOUT (max effort baseline)")
                       \o " (for deload calculation):\n"
                       \o FormatWorkoutForPrompt(ExpectedReference[1])

\* The same of the builder of services/deload alone, which no caller reaches
C17_BuilderAlone == (dl.copy = "deload") => C17_ReferenceByPriority

\* The builder falls back to the week-7 workout of the routine
C17_BuilderWitness ==
    /\ dl.pc = "generate" /\ dl.copy = "deload"
    /\ dl.title = Words(<< "Day", "2", "-", "Week", "9" >>)
    /\ dl.reference = Some(Week7Day1)
    /\ dl.fetches1 = MaxPages

\* The service's copy has served the week-7 workout of the routine to the
\* fallback loop and attaches no reference
C17_ServiceSkipsWeek7 ==
    /\ dl.pc = "generate" /\ dl.copy = "progressive_overload"
    /\ dl.title = Words(<< "Day", "1", "-", "Week", "8" >>)
    /\ DiscoverableWeek1SameDay = None
    /\ DiscoverableWeek7SameRoutine = Some(Week7Day1)
    /\ dl.reference = None
    /\ dl.prompt[1].reference_data = ""

\* The search is over, however it ended
SearchIsOver == dl.pc \notin { "start", "week1", "fallback" }

\* No workout either copy of the search accepts was in a page it was served
NoMatchServed ==
    /\ DiscoverableWeek1SameDay = None
    /\ DiscoverableWeek7SameRoutine = None
    /\ FirstWeek1SameRoutine(dl.seen2, CurrentWorkout) = None

NoReferenceContext ==
    [ next_week_index |-> 1,
      cycle_instruction |-> "\n\n CYCLE TRANSITION: You are transitioning from Week 8 (deload) to Week 1 of a NEW 8-week block. This should be a DELOAD week with 60% intensity reduction from current weights and reduced volume. Focus on form, recovery, and conservative loading to prepare for the new training cycle.",
      reference_data |-> "" ]

\* C18: in week 8 or later, if every request of a history page failed, or
\* the search went through its pages without a match, the context is still
\* produced, with the no-reference (flat percentage cut) instruction text and
\* no data, and the attempt goes on to the prompt of the LLM call with it
C18_SearchDegradesGracefully ==
    (CurrentWeekIndex >= 8 /\ SearchIsOver /\ (~dl.any_ok \/ NoMatchServed))
      => /\ dl.pc \in { "context", "generate" }
         /\ dl.ctx = Some(NoReferenceContext)
         /\ dl.pc = "generate"
              => /\ dl.prompt # None
                 /\ dl.prompt[1].cycle_instruction = NoReferenceContext.cycle_instruction
                 /\ dl.prompt[1].reference_data = ""

\* Twenty requests, all failed, and the prompt is there
C18_Witness ==
    /\ dl.pc = "generate"
    /\ CurrentWeekIndex >= 8
    /\ ~dl.any_ok
    /\ dl.fetches1 = MaxPages /\ dl.fetches2 = MaxPages
    /\ dl.history[0] # << Week7OtherRoutine >>
    /\ dl.prompt[1].reference_data = ""

\* All pages served, none with a match
C18_WitnessNoMatch ==
    /\ dl.pc = "generate"
    /\ CurrentWeekIndex >= 8
    /\ dl.any_ok /\ NoMatchServed
    /\ dl.total_count > MaxPages * PageSize
    /\ dl.fetches2 = MaxPages
    /\ Len(dl.seen2) = 1
    /\ dl.prompt[1].reference_data = ""

\* A page is requested in this step, by the first loop, by the fallback loop
RequestsWeek1Page == dl'.fetches1 > dl.fetches1
RequestsFallbackPage == dl'.fetches2 > dl.fetches2

\* The fallback loop has been served a workout its copy of the test accepts
FallbackMatchServed ==
    IF dl.copy = "deload" THEN DiscoverableWeek7SameRoutine # None
    ELSE FirstWeek1SameRoutine(dl.seen2, CurrentWorkout) # None

\* The request before was served, and the pages requested so far in this
\* phase, times the page size, reach the total count it reported
TotalCountReached == dl.last_ok /\ dl.page * 10 >= dl.total_count

\* C19: the reference search always comes to an end; each of its two phases
\* (week 1 of the same day, then the fallback) requests at most 10 pages,
\* requests none after the first matching workout, and none after a served
\* page once (pages requested so far x page size) reaches the total count
C19_SearchTerminates ==
    /\ <>SearchIsOver
    /\ [](dl.fetches1 <= 10 /\ dl.fetches2 <= 10)
    /\ [][ /\ RequestsWeek1Page
              => (DiscoverableWeek1SameDay = None /\ ~TotalCountReached)
           /\ RequestsFallbackPage
              => /\ DiscoverableWeek1SameDay = None
                 /\ ~FallbackMatchServed
                 /\ ~(dl.fetches2 > 0 /\ TotalCountReached) ]_vars

\* The fallback loop stopped after its second page, the first having failed:
\* two pages of ten reach the total count of 15
C19_Witness ==
    /\ dl.pc = "generate"
    /\ dl.total_count = 15
    /\ dl.fetches1 = 2 /\ dl.fetches2 = 2
    /\ dl.seen1 = << >> /\ dl.seen2 = << >>
    /\ dl.any_ok
    /\ dl.reference = None

\* A phase run to its cap of pages
C19_WitnessPageCap ==
    /\ dl.pc = "generate"
    /\ dl.fetches1 = MaxPages /\ dl.fetches2 = MaxPages
    /\ dl.any_ok

\* A phase stopped at its first match, on the first page
C19_WitnessFirstMatch ==
    /\ dl.pc = "generate"
    /\ dl.fetches1 = 1 /\ dl.fetches2 = 0
    /\ dl.reference = Some(Week1Day1)
    /\ Week1Day1Again \in { dl.history[MaxPages - 1][i] : i \in 1..Len(dl.history[MaxPages - 1]) }

\* C20: for a workout titled "Week 8", without a day marker, the next
\* routine title is "Week 1" and the reference search is run: the history is
\* asked for a reference although the title has no day number
C20_Week8WithoutDaySearches ==
    (dl.title = Words(<< "Week", "8" >>) /\ dl.pc # "start")
      => /\ dl.routine_title = "Week 1"
         /\ dl.week = 8
         /\ dl.pc \in { "week1", "fallback" } \/ dl.fetches1 + dl.fetches2 >= 1

\* The search of a "Week 8" workout found the week-7 workout of the routine
C20_Witness ==
    /\ dl.title = Words(<< "Week", "8" >>)
    /\ dl.pc = "generate"
    /\ dl.copy = "deload"
    /\ dl.prompt[1].routine_title = "Week 1"
    /\ dl.prompt[1].next_week_index = 1
    /\ dl.fetches1 = 0 /\ dl.fetches2 >= 1
    /\ dl.reference = Some(Week7Day1)

\* ----------------------------------------------------------- payload claims
\* The reply was parsed into a response
ResponseReturned == call.pc \in { "parsed", "update", "written" }

\* The workout's title carries a day and a week below 8
DayAndWeekBelow8 ==
    /\ ExtractDayFromTitle(call.title) # None
    /\ ExtractWeekFromTitle(call.title) # None
    /\ ExtractWeekFromTitle(call.title)[1] < 8

\* "Day D - Week W+1" of the workout's title
NextDayWeekTitle ==
    "Day " \o U32ToString(ExtractDayFromTitle(call.title)[1])
      \o " - Week " \o U32ToString(ExtractWeekFromTitle(call.title)[1] + 1)

\* The text under "routine_title" of the reply, if it has one
RepliedTitle ==
    LET obj == call.reply.content.v
    IN  IF "routine_title" \in DOMAIN obj /\ obj["routine_title"].t = "string"
        THEN Some(obj["routine_title"].v) ELSE None

\* C21 as stated: for a workout title with day D and week W < 8 the response
\* returned carries the routine title "Day D - Week W+1", and that title is
\* what is written back to the routine
C21_ResponseCarriesNextTitle ==
    (ResponseReturned /\ DayAndWeekBelow8)
      => /\ call.response[1].routine_title = NextDayWeekTitle
         /\ call.pc \in { "update", "written" }
              => call.update[1].title = Some(NextDayWeekTitle)
         /\ call.pc = "written" => call.routine.title = NextDayWeekTitle

\* C21, amended: for a workout title with day D and week W < 8 the prompt
\* asks for the routine title "Day D - Week W+1"; the response returned
\* carries the routine_title of the reply ("Updated Routine" when the reply
\* has none), and the title of the response is what is written back
C21_TitleOfReplyIsWrittenBack ==
    (ResponseReturned /\ DayAndWeekBelow8)
      => /\ call.asked_title = NextDayWeekTitle
         /\ call.response[1].routine_title
              = (IF RepliedTitle = None THEN "Updated Routine" ELSE RepliedTitle[1])
         /\ call.pc \in { "update", "written" }
              => call.update[1].title = Some(call.response[1].routine_title)
         /\ call.pc = "written"
              => call.routine.title = call.response[1].routine_title

\* "Day 1 - Week 2" answered with "Day 1 - Week 3": that title is written
C21_Witness ==
    /\ call.pc = "written"
    /\ call.title = Words(<< "Day", "1", "-", "Week", "2" >>)
    /\ RepliedTitle = Some("Day 1 - Week 3")
    /\ call.asked_title = "Day 1 - Week 3"
    /\ call.routine.title = "Day 1 - Week 3"

\* "Day 1 - Week 2" answered without a title: "Updated Routine" is written
C21_WitnessOtherTitle ==
    /\ call.pc = "written"
    /\ call.title = Words(<< "Day", "1", "-", "Week", "2" >>)
    /\ RepliedTitle = None
    /\ call.routine.title = "Updated Routine"

\* The reply of this call with other ancillary fields, updated_exercises kept
ReplyWith(week_number, routine_title) ==
    RawReply(call.reply.fenced, call.reply.prose,
             JObject(ReplyObject(call.reply.content.v["updated_exercises"],
                                 week_number, routine_title)))

\* The update process_single_workout would send for a reply, for the
\* routine of this call
UpdateFor(reply) ==
    RoutineUpdate(ParseGeminiResponse(reply),
                  [ k \in 1..Len(call.routine.exercises) |->
                      ToUpdateFormat(call.routine.exercises[k]) ])

\* C22 as stated: of the fields of the reply only updated_exercises affects
\* what is written back: a reply with the same updated_exercises and another
\* week_number or routine_title gives the same routine update
C22_OnlyExercisesAffectUpdate ==
    call.pc = "update"
      => \A week_number \in WeekNumberValues, routine_title \in RoutineTitleValues :
           UpdateFor(ReplyWith(week_number, routine_title)) = call.update[1]

\* C22, amended: of the fields of the reply, updated_exercises and
\* routine_title affect what is written back: a reply with the same
\* updated_exercises and routine_title and another week_number gives the
\* same routine update, and one with another routine_title gives an update
\* that differs in nothing but its title, which is the title of that reply
C22_ExercisesAndTitleAffectUpdate ==
    call.pc = "update"
      => \A week_number \in WeekNumberValues, routine_title \in RoutineTitleValues :
           LET other == UpdateFor(ReplyWith(week_number, routine_title))
           IN  /\ other = [ call.update[1] EXCEPT !.title = other.title ]
               /\ other.title
                    = Some(IF routine_title # None /\ routine_title[1].t = "string"
                           THEN routine_title[1].v ELSE "Updated Routine")
               /\ routine_title = (IF "routine_title" \in DOMAIN call.reply.content.v
                                   THEN Some(call.reply.content.v["routine_title"])
                                   ELSE None)
                    => other = call.update[1]

\* An update titled "Block B" whose reply said week 3 and had suggestions
C22_Witness ==
    /\ call.pc = "update"
    /\ call.update[1].title = Some("Block B")
    /\ call.response[1].week_number = 3
    /\ call.response[1].updated_exercises = << BenchWithRpe >>
    /\ call.suggestions # << >>
    /\ UpdateFor(ReplyWith(None, Some(JString("Block B")))) = call.update[1]
    /\ UpdateFor(ReplyWith(Some(JNumber(3)), None)) # call.update[1]

\* The exercises of the update sent, against those of the routine fetched
UpdateExercises == call.update[1].exercises[1]

NoSetCarriesRpe ==
    \A k \in 1..Len(UpdateExercises) :
      \A j \in 1..Len(UpdateExercises[k].sets) :
        "rpe" \notin DOMAIN UpdateExercises[k].sets[j]

\* C23 as stated: in the routine update no exercise set carries an rpe
\* field, and an exercise carries notes only when build_exercise_suggestions
\* produced a suggestion for its template id
C23_NotesOnlyWithSuggestion ==
    call.pc = "update"
      => /\ NoSetCarriesRpe
         /\ \A k \in 1..Len(UpdateExercises) :
              UpdateExercises[k].notes # None
                => UpdateExercises[k].exercise_template_id \in DOMAIN call.suggestions

\* C23, amended: in the routine update no exercise set carries an rpe
\* field; the notes of an exercise are the suggestion for its template id
\* when build_exercise_suggestions produced one, and otherwise the notes the
\* exercise has in the routine as fetched (none if it has none)
C23_NotesSuggestedOrKept ==
    call.pc = "update"
      => /\ NoSetCarriesRpe
         /\ Len(UpdateExercises) = Len(call.routine.exercises)
         /\ \A k \in 1..Len(UpdateExercises) :
              UpdateExercises[k].notes
                = IF UpdateExercises[k].exercise_template_id \in DOMAIN call.suggestions
                  THEN Some(call.suggestions[UpdateExercises[k].exercise_template_id])
                  ELSE call.routine.exercises[k].notes

\* The routine's bench press, whose set has an rpe, gets the suggestion; its
\* pull up keeps the note it had
C23_Witness ==
    /\ call.pc = "update"
    /\ call.routine = InitialRoutine
    /\ call.routine.exercises[1].sets[2].rpe = Some(8)
    /\ DOMAIN call.suggestions = { "T1" }
    /\ UpdateExercises[1].notes = Some("2 sets\nRPE 8\n82.5x5\n80x5")
    /\ UpdateExercises[2].notes = Some("bodyweight")

\* ------------------------------------------------------------- parse claims
ParseReturned == call.pc # "reply"

\* The JSON of the reply is an object with a valid "updated_exercises" array
HasValidExercises ==
    /\ call.reply.content.t = "object"
    /\ "updated_exercises" \in DOMAIN call.reply.content.v
    /\ call.reply.content.v["updated_exercises"].t = "exercises"

\* The reply is the JSON alone, or has it in a ```json fence (prose around
\* the fence or not)
BareOrFenced == call.reply.fenced \/ ~call.reply.prose

\* C24: a well-formed JSON object with a valid updated_exercises array, bare
\* or inside a ```json fence with prose around it, parses to a response
\* whose exercise list has the length and the order of the input array; a
\* reply without the key updated_exercises, or with one that is no array of
\* valid exercises, or that is not JSON, gives an error and no response
C24_ParseKeepsExercisesOrFails ==
    ParseReturned
      => /\ (HasValidExercises /\ BareOrFenced)
              => /\ call.pc # "malformed"
                 /\ call.response # None
                 /\ LET input == call.reply.content.v["updated_exercises"].v
                        parsed == call.response[1].updated_exercises
                    IN  /\ Len(parsed) = Len(input)
                        /\ \A k \in 1..Len(input) : parsed[k] = input[k]
         /\ ~HasValidExercises
              => (call.pc = "malformed" /\ call.response = None /\ call.update = None)

\* Three exercises in a fence with prose around it, parsed in their order
C24_Witness ==
    /\ call.pc = "parsed"
    /\ call.reply.fenced /\ call.reply.prose
    /\ Len(call.response[1].updated_exercises) = 3
    /\ call.response[1].updated_exercises[1] = PlankNoSets
    /\ call.response[1].updated_exercises[3] = PullUpNoWeight

\* A reply without the key "updated_exercises" ended as malformed
C24_WitnessMissing ==
    /\ call.pc = "malformed"
    /\ call.reply.content = ReplyMissing.content
    /\ call.response = None

\* C25: parsing never fails because of the ancillary fields: whenever
\* updated_exercises is valid, a missing or non-numeric week_number gives the
\* week number 1 and a missing routine_title gives the title "Updated
\* Routine", and the parse succeeds
C25_AncillaryFieldsDefault ==
    (ParseReturned /\ HasValidExercises /\ BareOrFenced)
      => LET obj == call.reply.content.v
         IN  /\ call.pc # "malformed"
             /\ call.response # None
             /\ ("week_number" \notin DOMAIN obj \/ obj["week_number"].t # "number")
                  => call.response[1].week_number = 1
             /\ "routine_title" \notin DOMAIN obj
                  => call.response[1].routine_title = "Updated Routine"

\* Parsed with neither ancillary field
C25_Witness ==
    /\ call.pc = "parsed"
    /\ DOMAIN call.reply.content.v = { "updated_exercises" }
    /\ call.response[1].updated_exercises = << PullUpNoWeight, FacePullAllWarmup >>
    /\ call.response[1].week_number = 1
    /\ call.response[1].routine_title = "Updated Routine"

\* Parsed with a week_number that is a string
C25_WitnessNonNumeric ==
    /\ call.pc = "parsed"
    /\ "week_number" \in DOMAIN call.reply.content.v
    /\ call.reply.content.v["week_number"] = JString("three")
    /\ call.response[1].week_number = 1

\* ------------------------------------------------------------- title claims
\* The title the first call was made with: its week and day are known
OnFirstTitle == call.pc # "idle" /\ "first" \in DOMAIN call /\ call.applications = 0

WeekOrOne(c) == IF c.week = None THEN 1 ELSE c.week[1]
DayOrOne(c) == IF c.day = None THEN 1 ELSE c.day[1]

\* C26: for a title with a "week N" and/or a "day M" token, in any letter
\* case, in either order, with or without white space between the keyword
\* and the number, extract_week_and_day returns exactly N as the week and M
\* as the day; a component the title lacks (a keyword without a number, as
\* in "Push Day", included) is 1
C26_ExtractsExactlyWeekAndDay ==
    (OnFirstTitle /\ call.week_and_day # None)
      => /\ call.week_and_day[1].week = WeekOrOne(call.first)
         /\ call.week_and_day[1].day = DayOrOne(call.first)

\* "Day4 -week 2": the day is 4 and the week is 2
C26_Witness ==
    /\ OnFirstTitle
    /\ TitleText(call.title) = "Day4 -week 2"
    /\ call.week_and_day = Some([ week |-> 2, day |-> 4 ])

\* "WEEK  7 - DAY 3", the week first and in capitals
C26_WitnessWeekFirst ==
    /\ OnFirstTitle
    /\ TitleText(call.title) = "WEEK  7 - DAY 3"
    /\ call.week_and_day = Some([ week |-> 7, day |-> 3 ])

\* "Push Day" has neither
C26_WitnessPushDay ==
    /\ OnFirstTitle
    /\ TitleText(call.title) = "Push Day"
    /\ call.week_and_day = Some([ week |-> 1, day |-> 1 ])

\* The week that follows week w: 1 from week 8 on
WeekAfter(w) == IF w >= 8 THEN 1 ELSE w + 1

\* The next title the four cases call for
ExpectedNextTitle(c) ==
    CASE c.day # None /\ c.week # None ->
           "Day " \o U32ToString(c.day[1]) \o " - Week "
             \o U32ToString(WeekAfter(c.week[1]))
      [] c.day # None /\ c.week = None -> "Day " \o U32ToString(c.day[1] + 1)
      [] c.day = None /\ c.week # None -> "Week " \o U32ToString(WeekAfter(c.week[1]))
      [] OTHER -> "Week 2"

\* C27: determine_routine_title_format gives "Day D - Week W'" for a title
\* with both tokens (W' is W+1 below week 8 and 1 from week 8 on), "Week W'"
\* for a title with a week only, "Day D+1" for a title with a day only, and
\* "Week 2" for a title with neither
C27_NextTitleByCase ==
    (OnFirstTitle /\ call.next # None)
      => TitleText(call.next[1]) = ExpectedNextTitle(call.first)

\* "Day4 -week 2" becomes "Day 4 - Week 3"
C27_Witness ==
    /\ OnFirstTitle
    /\ TitleText(call.title) = "Day4 -week 2"
    /\ call.next # None
    /\ TitleText(call.next[1]) = "Day 4 - Week 3"

\* "day 1" becomes "Day 2"
C27_WitnessDayOnly ==
    /\ OnFirstTitle
    /\ TitleText(call.title) = "day 1"
    /\ call.next # None
    /\ TitleText(call.next[1]) = "Day 2"

\* "Week 10" becomes "Week 1", "Chest Press" becomes "Week 2"
C27_WitnessWeekOnly ==
    /\ OnFirstTitle
    /\ TitleText(call.title) = "Week 10"
    /\ call.next # None
    /\ TitleText(call.next[1]) = "Week 1"

C27_WitnessNeither ==
    /\ OnFirstTitle
    /\ TitleText(call.title) = "Chest Press"
    /\ call.next # None
    /\ TitleText(call.next[1]) = "Week 2"

\* The first title has a week within the cycle
StartsWithinCycle ==
    /\ call.pc # "idle" /\ "first" \in DOMAIN call
    /\ call.first.week # None
    /\ call.first.week[1] \in 1..8

\* The week reached from week w by k applications
RECURSIVE WeekAfterApplications(_, _)
WeekAfterApplications(w, k) ==
    IF k = 0 THEN w ELSE WeekAfterApplications(WeekAfter(w), k - 1)

\* C28: a title at week 8 gives week 1 with the day, if it has one,
\* unchanged; applied again and again to its own result from any week in
\* 1..8, the week stays within 1..8, going back to 1 after 8, and the day
\* never changes
C28_WeekWrapsDayStays ==
    StartsWithinCycle
      => LET week == CaptureAfter(call.title, "week")
             day  == CaptureAfter(call.title, "day")
         IN  /\ week # None
             /\ ParseU32(week[1]) # None
             /\ ParseU32(week[1])[1] \in 1..8
             /\ ParseU32(week[1])[1]
                  = WeekAfterApplications(call.first.week[1], call.applications)
             /\ call.applications > 0
                  => TitleText(call.title)
                       = (IF call.first.day = None THEN "" ELSE
                            "Day " \o U32ToString(call.first.day[1]) \o " - ")
                         \o "Week " \o U32ToString(
                              WeekAfterApplications(call.first.week[1],
                                                    call.applications))
             /\ (day = None) = (call.first.day = None)
             /\ day # None => ParseU32(day[1]) = call.first.day
             /\ (call.next # None /\ ParseU32(week[1])[1] = 8)
                  => /\ ExtractWeekAndDay(call.next[1]).week = 1
                     /\ ExtractDayFromTitle(call.next[1]) = call.first.day

\* "Day 3 - Week 8" gave "Day 3 - Week 1"
C28_Witness ==
    /\ StartsWithinCycle
    /\ TitleText(call.title) = "Day 3 - Week 8"
    /\ call.next # None
    /\ TitleText(call.next[1]) = "Day 3 - Week 1"

\* From week 6, nine applications later: week 7 of the next cycle, same day
C28_WitnessAround ==
    /\ StartsWithinCycle
    /\ call.first.week = Some(6) /\ call.first.day = Some(2)
    /\ call.applications = 9
    /\ TitleText(call.title) = "Day 2 - Week 7"

\* -------------------------------------------------------- suggestion claims
\* The suggestions of the response have been built
SuggestionsBuilt == call.pc \in { "update", "written" }

NonWarmupSets(exercise) ==
    SelectSeq(exercise.sets,
              LAMBDA set : set.set_type \notin { "warmup", "Warmup", "WARMUP" })

\* "<weight>x<reps>" with a weight, "<reps> reps" without ("?" for no reps)
LineOfSet(set) ==
    LET reps == IF set.reps = None THEN "?" ELSE U32ToString(set.reps[1])
    IN  IF set.weight_kg = None THEN reps \o " reps"
        ELSE FormatWeight(set.weight_kg[1]) \o "x" \o reps

LinesOfSets(exercise) ==
    [ k \in 1..Len(NonWarmupSets(exercise)) |-> LineOfSet(NonWarmupSets(exercise)[k]) ]

CountLine(exercise) == U32ToString(Len(NonWarmupSets(exercise))) \o " sets"

\* The line "RPE <token>" of an exercise whose notes carry such a token
RpeLine(exercise) ==
    IF exercise.notes = None \/ ExtractRpeFromNotes(exercise.notes[1]) = None
    THEN << >>
    ELSE << "RPE " \o ExtractRpeFromNotes(exercise.notes[1])[1] >>

\* Every exercise without a non-warmup set has no entry, and every other one
\* has the entry made of the lines given
SuggestionsAre(with_rpe) ==
    LET exs == call.response[1].updated_exercises
    IN  \A k \in 1..Len(exs) :
          IF NonWarmupSets(exs[k]) = << >>
          THEN exs[k].exercise_template_id \notin DOMAIN call.suggestions
          ELSE /\ exs[k].exercise_template_id \in DOMAIN call.suggestions
               /\ call.suggestions[exs[k].exercise_template_id]
                    = Join(<< CountLine(exs[k]) >>
                             \o (IF with_rpe THEN RpeLine(exs[k]) ELSE << >>)
                             \o LinesOfSets(exs[k]), "\n")

C29_WitnessAllWarmup ==
    /\ SuggestionsBuilt
    /\ call.response[1].updated_exercises = << PullUpNoWeight, FacePullAllWarmup >>
    /\ DOMAIN call.suggestions = { "T2" }

\* -------------------------------------------------------------- lock claims
\* A step of the process whose guard is alive
GuardStep(p) ==
    \/ LockedInsert(p)
    \/ DropAfterInsert(p)
    \/ (p = Cron /\ LockedContains)
    \/ (p = Cron /\ DropAfterCheck)

\* C30: the lock on the processed set is held only for a single lookup or
\* insert: no task holds it while it awaits a call of the tracker or of the
\* model, so in no interleaving of webhook tasks and reconciliation passes
\* does a process wait for the lock across an I/O step of its holder, and
\* there is no deadlock (the holder can always go on, and whenever a process
\* waits for the lock some step can be taken)
C30_GuardOnlyAroundOneUse ==
    mtx.pc = "running"
      => /\ \A p \in Procs :
              mtx.holder = Some(p)
                => /\ mtx.at[p] \in GuardPositions
                   /\ mtx.at[p] \notin AwaitPositions
                   /\ ENABLED GuardStep(p)
         /\ mtx.uses <= 1
         /\ \A p \in Procs :
              (mtx.holder # Some(p)) => mtx.at[p] \notin GuardPositions
         /\ (\E p \in Procs : mtx.at[p] \in LockPositions) => ENABLED LockNext

\* A task waits to mark its workout while run_sync holds the guard for its
\* lookup, and another task awaits the model
C30_Witness ==
    /\ mtx.pc = "running"
    /\ mtx.holder = Some(Cron)
    /\ mtx.at[Cron] = "drop_check"
    /\ mtx.uses = 1
    /\ \E p, q \in Tasks : mtx.at[p] = "lock_mark" /\ mtx.at[q] = "generate"

\* run_sync awaits inside process_single_workout, with no guard alive, after
\* a lookup that did not find the id
C30_WitnessAwaitAfterCheck ==
    /\ mtx.pc = "running"
    /\ mtx.at[Cron] = "update_routine"
    /\ mtx.holder = None
    /\ ~mtx.found

\* ------------------------------------------------------- in-flight claims
\* The processes whose process_single_workout for id i has not returned
AttemptsInFlight(i) == { p \in Procs : InPipeline(p) /\ proc[p].id = i }

\* C31: at most one processing attempt per id is in flight at any time; a
\* reconciliation pass never dispatches an id while a task spawned by the
\* webhook is still processing it, so there are never two concurrent runs
\* and two write-backs for one id
C31_OneAttemptPerIdInFlight ==
    /\ \A i \in Ids : Cardinality(AttemptsInFlight(i)) <= 1
    /\ [][ \A i \in Ids :
             (LoopTurn /\ proc'[Cron] # proc[Cron] /\ proc'[Cron].id = i)
               => AttemptsInFlight(i) = { } ]_vars

\* run_sync and a spawned task both stand before the write-back for one id
C31_TwoWriteBacksPending ==
    \E p \in Tasks :
      /\ proc[p].pc = "update_routine" /\ proc[Cron].pc = "update_routine"
      /\ proc[p].id = proc[Cron].id

\* Two spawned tasks process one id at the same time
C31_TwoTasksOneId ==
    \E p, q \in Tasks :
      /\ p # q /\ InPipeline(p) /\ InPipeline(q)
      /\ proc[p].id = proc[q].id

\* ---------------------------------------------------------- order claims
\* The place of a step in process_single_workout (0: not in an attempt)
StepRank(pc) ==
    CASE pc = "get_workout" -> 1
      [] pc = "get_routine" -> 2
      [] pc = "generate" -> 3
      [] pc = "update_routine" -> 4
      [] OTHER -> 0

\* The step p takes goes on to the next await of the attempt, or returns
StepsInOrder(p) ==
    proc'[p].pc # proc[p].pc
      => \/ StepRank(proc'[p].pc) = StepRank(proc[p].pc) + 1
         \/ StepRank(proc'[p].pc) = 0

\* p goes on to the write-back only from the call of the model, with the
\* update made from a reply that parsed
WriteBackAfterParse(p) ==
    (proc'[p].pc = "update_routine" /\ proc[p].pc # "update_routine")
      => /\ proc[p].pc = "generate"
         /\ proc'[p].update # None

\* The step is the return of some attempt's update_routine
WriteBackReturns(i) ==
    \E p \in Procs :
      /\ proc[p].pc = "update_routine" /\ proc[p].id = i
      /\ proc'[p].pc \in { "idle", "done" }
      /\ last'.kind \in { "updated", "update_failed" } /\ last'.id = i

\* The step is the return of some attempt for a workout without a routine,
\* right after its workout fetch
NoRoutineReturns(i) ==
    \E p \in Procs :
      /\ proc[p].pc = "get_workout" /\ proc[p].id = i
      /\ NoRoutineAssociated(workouts[i].routine_id)
      /\ last'.kind = "no_routine" /\ last'.id = i

\* C32: within one attempt the steps come in a fixed order, each at most
\* once: workout fetch, routine fetch, call of the model, parse of the reply,
\* write-back, mark processed; a write-back is issued only after the reply
\* parsed, and the id is inserted only after the write-back call returned
\* (with success or failure)
C32_OrderedMarkAfterWriteBack ==
    [][ /\ \A p \in Procs : StepsInOrder(p) /\ WriteBackAfterParse(p)
        /\ routine' # routine
             => \E p \in Procs : proc[p].pc = "update_routine" /\ proc'[p].pc # "update_routine"
        /\ \A i \in Ids :
             (i \in processed' /\ i \notin processed) => WriteBackReturns(i) ]_vars

\* C32, with the short-circuit: as above, and the id is inserted only when
\* the write-back call returned or, for a workout without a routine, right
\* after the workout fetch
C32_OrderedMarkAfterWriteBackOrNoRoutine ==
    [][ /\ \A p \in Procs : StepsInOrder(p) /\ WriteBackAfterParse(p)
        /\ routine' # routine
             => \E p \in Procs : proc[p].pc = "update_routine" /\ proc'[p].pc # "update_routine"
        /\ \A i \in Ids :
             (i \in processed' /\ i \notin processed)
               => (WriteBackReturns(i) \/ NoRoutineReturns(i)) ]_vars

\* An attempt went through every step: its write-back failed and its id is
\* marked
C32_Witness ==
    /\ last.kind = "update_failed"
    /\ last.id \in processed
    /\ last.id \in terminal
    /\ workouts[last.id].routine_id = "R1"

\* A workout without a routine was marked with no write-back
C32_WitnessNoRoutine ==
    /\ last.kind = "no_routine"
    /\ last.id \in processed
    /\ routine = InitialRoutine

\* ---------------------------------------------------------- frame claims
\* The update has been prepared from the routine as it was fetched, and is
\* not yet applied
UpdatePrepared == call.pc = "update"

\* Exercise b has the template, superset, rest time and sets of exercise a
SameButNotes(a, b) ==
    /\ b.exercise_template_id = a.exercise_template_id
    /\ b.superset_id = a.superset_id
    /\ b.rest_seconds = a.rest_seconds
    /\ Len(b.sets) = Len(a.sets)
    /\ \A j \in 1..Len(a.sets) :
         /\ b.sets[j].set_type = a.sets[j].set_type
         /\ b.sets[j].weight_kg = a.sets[j].weight_kg
         /\ b.sets[j].reps = a.sets[j].reps
         /\ b.sets[j].distance_meters = a.sets[j].distance_meters
         /\ b.sets[j].duration_seconds = a.sets[j].duration_seconds
         /\ b.sets[j].custom_metric = a.sets[j].custom_metric

\* C33: the write-back changes only the routine's title and exercise notes:
\* the exercises of the update are the fetched routine's, in the same number
\* and order, with set types, weights, reps, superset ids and rest times
\* unchanged; the sets the reply prescribes never replace the routine's, and
\* a suggestion whose template id matches no exercise of the routine adds
\* nothing
C33_OnlyTitleAndNotesChange ==
    UpdatePrepared
      => LET fetched == call.routine.exercises
             sent    == call.update[1].exercises[1]
             after   == ApplyUpdate(call.routine, call.update[1])
         IN  /\ call.update[1].notes = None /\ call.update[1].folder_id = None
             /\ Len(sent) = Len(fetched)
             /\ \A k \in 1..Len(fetched) : SameButNotes(fetched[k], sent[k])
             /\ after.id = call.routine.id
             /\ Len(after.exercises) = Len(fetched)
             /\ \A k \in 1..Len(fetched) : SameButNotes(fetched[k], after.exercises[k])

\* The reply prescribes 82.5 kg and 80 kg for the bench press and has a pull
\* up with two sets; the update keeps the routine's 40 kg warmup and 80 kg
\* set and its one pull up set, and carries the two suggestions as notes
C33_Witness ==
    /\ UpdatePrepared
    /\ call.routine = InitialRoutine
    /\ call.response[1].updated_exercises = << PlankNoSets, BenchWithRpe, PullUpNoWeight >>
    /\ Len(call.update[1].exercises[1]) = 2
    /\ call.update[1].exercises[1][1].sets[2].weight_kg = Some(800)
    /\ call.update[1].exercises[1][1].notes = Some("2 sets\nRPE 8\n82.5x5\n80x5")
    /\ Len(call.update[1].exercises[1][2].sets) = 1

\* The only suggestion is for a template the routine has no exercise of: the
\* update is the routine's exercises as they were
C33_WitnessNoMatch ==
    /\ UpdatePrepared
    /\ call.routine = OtherRoutine
    /\ call.response[1].updated_exercises = << BenchWithRpe >>
    /\ DOMAIN call.suggestions = { "T1" }
    /\ call.update[1].exercises[1]
         = [ k \in 1..2 |-> ToUpdateFormat(OtherRoutine.exercises[k]) ]

\* ----------------------------------------------------- failed-pass claims
\* The step is a pass whose get_workouts failed
PassFetchFails == passes' = passes + 1 /\ last'.kind = "sync_failed"

\* C34: if the history fetch of a reconciliation pass fails, the pass
\* dispatches no id and leaves the processed set unchanged; the failure is
\* confined to that pass (the attempts in flight, the routine and the loop
\* state are as they were), and later scheduled passes still run
C34_FailedFetchConfinedToPass ==
    /\ [][ PassFetchFails
             => /\ proc' = proc
                /\ processed' = processed
                /\ routine' = routine
                /\ cron' = cron
                /\ retries' = retries /\ terminal' = terminal /\ failed' = failed ]_vars
    /\ []((last.kind = "sync_failed" /\ passes < MaxPasses)
            => (ENABLED RunSyncFetchOk /\ ENABLED RunSyncFetchErr))

\* The first pass failed while a task spawned by the webhook was at work:
\* nothing is processed by the pass and the task is where it was
C34_Witness ==
    /\ last.kind = "sync_failed"
    /\ passes = 1
    /\ proc[Cron] = IdleProc
    /\ processed = { }
    /\ \E p \in Tasks : proc[p].pc = "generate"

\* A pass after the failed one dispatched an id
C34_WitnessLaterPass ==
    /\ passes = 2
    /\ deliveries = 0
    /\ processed = { }
    /\ failed = { }
    /\ InPipeline(Cron)
    /\ cron.window = << >>

\* ---------------------------------------------------- failed-page claims
\* This step is the Err arm of the request, in the first loop, in the
\* fallback loop
Week1PageFails == RequestsWeek1Page /\ FindWeek1FetchErr
FallbackPageFails == RequestsFallbackPage /\ FallbackFetchErr

\* The workout the loop at work accepts in the page this step is served
MatchOnServedPage ==
    IF dl.pc = "week1"
    THEN FirstWeek1SameDay(dl.history[dl.page], ExtractDayFromTitle(dl.title)[1])
    ELSE IF dl.copy = "deload"
    THEN FirstMaxEffortSameRoutine(dl.history[dl.page], CurrentWorkout)
    ELSE FirstWeek1SameRoutine(dl.history[dl.page], CurrentWorkout)

\* C35: a failed fetch of one history page does not end the reference
\* search: the search goes on to the next page, whatever the total count
\* (the loop ends only at its cap of 10 pages), and a matching workout on
\* any later page that is served is still returned
C35_FailedPageSkipped ==
    [][ /\ Week1PageFails
          => /\ dl'.reference = None /\ dl'.ctx = None
             /\ IF dl.page + 1 < 10
                THEN dl'.pc = "week1" /\ dl'.page = dl.page + 1
                ELSE dl'.pc = "fallback" /\ dl'.page = 0
        /\ FallbackPageFails
          => IF dl.page + 1 < 10
             THEN dl'.pc = "fallback" /\ dl'.page = dl.page + 1 /\ dl'.reference = None
             ELSE dl'.pc = "context" /\ dl'.reference = None
        /\ ((RequestsWeek1Page \/ RequestsFallbackPage) /\ dl'.last_ok
              /\ MatchOnServedPage # None)
          => (dl'.reference = MatchOnServedPage /\ dl'.pc = "context") ]_vars

\* The first page failed, with a total count the first page would have
\* reached, and the week-1 workout on the last page of the cap was returned
C35_Witness ==
    /\ dl.pc = "generate"
    /\ dl.total_count = 5
    /\ dl.fetches1 = 10
    /\ dl.seen1 = << Week1Day1 >>
    /\ dl.reference = Some(Week1Day1)

\* The same in the fallback loop of the builder
C35_WitnessFallback ==
    /\ dl.pc = "generate" /\ dl.copy = "deload"
    /\ dl.fetches2 = 10
    /\ dl.seen2 = << Week7Day1 >>
    /\ dl.reference = Some(Week7Day1)

\* --------------------------------------------------- completeness claims
RECURSIVE PagesUpTo(_, _)
PagesUpTo(history, count) ==
    IF count = 0 THEN << >>
    ELSE PagesUpTo(history, count - 1) \o history[count - 1]

Examined(seen) == { seen[k] : k \in 1..Len(seen) }
Held == { dl.all[k] : k \in 1..Len(dl.all) }

\* Every request of the first loop, of the fallback loop, was served
AllServedWeek1 == dl.seen1 = PagesUpTo(dl.history, dl.fetches1)
AllServedFallback == dl.seen2 = PagesUpTo(dl.history, dl.fetches2)

\* The first loop, the fallback loop, ended without a workout
Week1LoopGaveUp ==
    dl.fetches1 > 0 /\ dl.reference = None /\ dl.pc \in { "fallback", "context", "generate" }
FallbackLoopGaveUp ==
    dl.fetches2 > 0 /\ dl.reference = None /\ dl.pc \in { "context", "generate" }

\* The page the reconciliation pass takes for the most recent one
MostRecentPage == PageSlice(dl.all, 1, SyncPageSize)
SearchStartsOnSyncPage ==
    dl.history[0] = MostRecentPage /\ dl.history[SyncPage] = MostRecentPage

\* C36: when all page fetches succeed and the history holds at most 100
\* workouts, with page 0 of the search being the most recent page the
\* reconciliation pass fetches as page 1, a loop of the search that concludes
\* that no reference exists has examined every workout of the history
C36_SearchExaminesEveryWorkout ==
    (Len(dl.all) <= 100 /\ SearchStartsOnSyncPage)
      => /\ (Week1LoopGaveUp /\ AllServedWeek1) => Held \subseteq Examined(dl.seen1)
         /\ (FallbackLoopGaveUp /\ AllServedFallback) => Held \subseteq Examined(dl.seen2)

\* 15 workouts, every request served: the week-1 workout of the same day is
\* the oldest one, and the search ended without it after two requests
C36_SkippedLastPage ==
    /\ dl.numbering = "from1_page0_as_page1"
    /\ dl.pc = "generate" /\ dl.reference = None
    /\ Len(dl.all) = 15 /\ dl.all[15] = Week1Day1
    /\ ExtractDayFromTitle(dl.title) = Some(1)
    /\ dl.fetches1 = 2 /\ AllServedWeek1
    /\ AllServedFallback

\* A tracker that counts its pages from 0: the search is complete, and page 1
\* of the reconciliation pass is not the most recent page
C36_SyncPageNotMostRecent ==
    /\ dl.numbering = "from0"
    /\ dl.pc = "generate" /\ dl.reference = None
    /\ Len(dl.all) = 15 /\ AllServedWeek1 /\ dl.fetches1 = 2
    /\ Held \subseteq Examined(dl.seen1)
    /\ dl.history[SyncPage] # MostRecentPage

\* ---------------------------------------------------- equivalence claims
\* What a loop of a copy accepts in one page of the history
AcceptedOnPage(copy, loop, page) ==
    IF loop = "week1"
    THEN FirstWeek1SameDay(dl.history[page], ExtractDayFromTitle(dl.title)[1])
    ELSE IF copy = "deload"
    THEN FirstMaxEffortSameRoutine(dl.history[page], CurrentWorkout)
    ELSE FirstWeek1SameRoutine(dl.history[page], CurrentWorkout)

\* What a loop of a copy returns when every page it requests is served
RECURSIVE LoopOver(_, _, _)
LoopOver(copy, loop, page) ==
    IF page >= MaxPages THEN None
    ELSE IF AcceptedOnPage(copy, loop, page) # None
    THEN AcceptedOnPage(copy, loop, page)
    ELSE IF ReachedTotalCount(page, dl.total_count) THEN None
    ELSE LoopOver(copy, loop, page + 1)

\* The reference a copy of the search selects for the current workout and
\* the history, when every page it requests is served
SelectedBy(copy) ==
    IF ~IsDeloadTransition(CurrentWeekIndex) THEN None
    ELSE LET first == IF ExtractDayFromTitle(dl.title) = None THEN None
                      ELSE LoopOver(copy, "week1", 0)
         IN  IF first # None THEN first ELSE LoopOver(copy, "fallback", 0)

\* Every page requested was served, and served pages end a loop by the
\* total count only (a failed request of an empty page leaves no trace, and
\* goes on where a served one may stop)
EveryRequestServed ==
    /\ AllServedWeek1 /\ AllServedFallback
    /\ \A page \in 0..(MaxPages - 1) :
         dl.history[page] = << >> => ~ReachedTotalCount(page, dl.total_count)

\* C37: the search the service carries and the builder of services/deload
\* are equivalent: for every current workout and every history, with every
\* request served, the search that ran has selected the reference either of
\* them selects, and the context has the next week number both compute
C37_CopiesSelectTheSame ==
    (DeloadContextBuilt /\ EveryRequestServed)
      => /\ dl.reference = SelectedBy("deload")
         /\ dl.reference = SelectedBy("progressive_overload")
         /\ dl.ctx # None
         /\ dl.ctx[1].next_week_index = NextWeekIndex(CurrentWeekIndex)

\* Each copy on its own selects what its loops select, and the next week
\* number is the same in both
C37_EachCopyItsOwn ==
    (DeloadContextBuilt /\ EveryRequestServed)
      => /\ dl.reference = SelectedBy(dl.copy)
         /\ dl.ctx # None
         /\ dl.ctx[1].next_week_index = NextWeekIndex(CurrentWeekIndex)

\* The service was served the week-7 workout of the routine and selected
\* nothing, where the builder selects that workout
C37_ServiceSelectsNothing ==
    /\ dl.pc = "generate" /\ dl.copy = "progressive_overload"
    /\ EveryRequestServed
    /\ dl.reference = None
    /\ SelectedBy("deload") = Some(Week7Day1)

\* The service selected a week-1 workout of the routine of another day,
\* where the builder selects nothing
C37_ServiceSelectsOtherDay ==
    /\ dl.pc = "generate" /\ dl.copy = "progressive_overload"
    /\ EveryRequestServed
    /\ dl.reference = Some(Week1Day3)
    /\ SelectedBy("deload") = None

====
